---------------------------- MODULE Spec2Model ----------------------------
(***************************************************************************)
(* A model of the aggregation-and-diff core of src/glp1_survey.py:         *)
(* DiffManager (snapshot load / create / save, get_diff) and               *)
(* GLP1SurveyManager.run_survey with its two persisted state files.        *)
(* Further sections model RelevanceMatcher, the adapters' fetch_articles,   *)
(* DrugApproval.to_article, the filing search of FDAApiClient and          *)
(* DrugShortageMonitor (cache and check_shortages).                        *)
(*                                                                         *)
(* Python strings that the code takes apart (shortage titles) are          *)
(* sequences of characters; every non-ASCII character is written as an     *)
(* ASCII token ("U+26A0", "kyo", ...) that stands for that one character.  *)
(* Strings that the code only compares or concatenates (URLs, filing       *)
(* fields) are TLA+ strings.  Python's None is NoneStr for an optional     *)
(* string and the empty tuple NoSnapshot for an optional snapshot.         *)
(***************************************************************************)
EXTENDS Integers, Sequences, FiniteSets, TLC

VARIABLES
    snapshot_file,      \* last_snapshot.json: <<>> when absent, else <<data>>,
                        \*   data what json.load makes of its text
    seen_file,          \* seen_urls.json: <<>> when absent, else <<list>>
    mgr,                \* the GLP1SurveyManager instances (with their DiffManager)
    articles,           \* the argument lists of the last get_diff call,
    shortage_articles,  \*   whose elements get_diff mutates (is_new)
    fda_approvals,
    returned,           \* the diffs returned by the get_diff calls so far
    hash_seed,          \* the process's set iteration order over drug keys
    now,                \* the clock read by datetime.now()
    pc,                 \* position of the driver of the specification
    history             \* bookkeeping about the runs (not program state)

vars == <<snapshot_file, seen_file, mgr, articles, shortage_articles,
          fda_approvals, returned, hash_seed, now, pc, history>>

----------------------------------------------------------------------------
(* Bounds *)

MaxArticles == 2        \* longest article list handed to get_diff
MaxShortage == 2        \* longest shortage item list handed to get_diff
MaxFilings  == 2        \* longest filing list handed to get_diff
MaxRuns     == 2        \* run_survey calls

----------------------------------------------------------------------------
(* Python values *)

NoneStr    == "<None>"          \* None where a str is optional
NoSnapshot == <<>>              \* None where a SurveySnapshot is optional
Some(x)    == <<x>>
EmptyDict  == [k \in {} |-> "normal"]

\* f"{x}" : None is formatted as the text None
Format(x) == IF x = NoneStr THEN "None" ELSE x

\* truthiness of an optional string: None and "" are falsy
Truthy(x) == x # NoneStr /\ x # ""

\* d[k] = v on a dict
Put(d, k, v) == [x \in (DOMAIN d) \cup {k} |-> IF x = k THEN v ELSE d[x]]

\* d.get(k, default)
Get(d, k, default) == IF k \in DOMAIN d THEN d[k] ELSE default

\* set(a.url for a in list) and friends
Range(s) == {s[i] : i \in DOMAIN s}

\* the timestamp '' that a document without a timestamp loads as (timestamps
\* are readings of the clock, which starts at 1)
NoTimestamp == 0

\* every list without repetition that enumerates the set S: list(S)
ListsOf(S) ==
    {s \in [1..Cardinality(S) -> S] : \A i, j \in 1..Cardinality(S) : s[i] = s[j] => i = j}

\* all lists over S of length at most n
SeqsUpTo(S, n) == UNION {[1..k -> S] : k \in 0..n}

----------------------------------------------------------------------------
(* str operations on character sequences *)

Whitespace == {" "}

\* old in s
RECURSIVE Contains(_, _)
Contains(s, old) ==
    IF Len(s) < Len(old) THEN FALSE
    ELSE IF SubSeq(s, 1, Len(old)) = old THEN TRUE
    ELSE Contains(Tail(s), old)

\* s.replace(old, new): left to right, non-overlapping (old is not empty)
RECURSIVE Replace(_, _, _)
Replace(s, old, new) ==
    IF Len(s) < Len(old) THEN s
    ELSE IF SubSeq(s, 1, Len(old)) = old
         THEN new \o Replace(SubSeq(s, Len(old) + 1, Len(s)), old, new)
         ELSE <<Head(s)>> \o Replace(Tail(s), old, new)

RECURSIVE LStrip(_)
LStrip(s) == IF s # <<>> /\ Head(s) \in Whitespace THEN LStrip(Tail(s)) ELSE s

RECURSIVE RStrip(_)
RStrip(s) ==
    IF s # <<>> /\ s[Len(s)] \in Whitespace THEN RStrip(SubSeq(s, 1, Len(s) - 1)) ELSE s

\* s.strip()
Strip(s) == RStrip(LStrip(s))

\* c.lower() for the letters of the model's alphabet
LowerChar(c) ==
    IF c = "O" THEN "o" ELSE IF c = "Z" THEN "z" ELSE IF c = "G" THEN "g"
    ELSE IF c = "A" THEN "a" ELSE IF c = "T" THEN "t" ELSE c

\* s.lower()
Lower(s) == [i \in DOMAIN s |-> LowerChar(s[i])]

----------------------------------------------------------------------------
(* The title markers of the shortage items *)

\* "<warning sign> kyo-kyu-fu-soku:" (supply shortage)
MarkerShortage == <<"U+26A0", "U+FE0F", " ", "kyo", "kyu", "fu", "soku", ":">>
\* "<check mark> kyo-kyu-sei-jou:" (supply normal)
MarkerNormal   == <<"U+2705", " ", "kyo", "kyu", "sei", "jou", ":">>
\* "<check mark> kyo-kyu-kai-shou:" (shortage resolved)
MarkerResolved == <<"U+2705", " ", "kyo", "kyu", "kai", "shou", ":">>
\* "(risuto kisai nashi)" (not listed)
NotListed      == <<"(", "ri", "su", "to", "ki", "sai", "na", "shi", ")">>

\* the titles check_shortages builds
TitleShortage(name)  == MarkerShortage \o <<" ">> \o name
TitleResolved(name)  == MarkerResolved \o <<" ">> \o name
TitleNotListed(name) == MarkerNormal \o <<" ">> \o name \o <<" ">> \o NotListed
TitleNoAccess ==
    <<"U+26A0", "U+FE0F", " ", "Drug Shortage Database", " ", "akusesu", "fuka">>


----------------------------------------------------------------------------
(* Data model *)

\* Article(url=...), is_new defaults to False
Article(url) == [url |-> url, is_new |-> FALSE]

\* Article(title=..., url=...) as DrugShortageMonitor builds it
ShortageArticle(title, url) == [title |-> title, url |-> url]

\* DrugApproval(drug_name=..., brand_name=..., application_number=...)
DrugApproval(drug_name, brand_name, application_number) ==
    [drug_name |-> drug_name, brand_name |-> brand_name,
     application_number |-> application_number, is_new |-> FALSE]

\* SurveySnapshot(...)
SurveySnapshot(timestamp, article_urls, shortage_status, fda_approval_ids, article_count, fda_count, shortage_count) ==
    [timestamp |-> timestamp, article_urls |-> article_urls,
     shortage_status |-> shortage_status, fda_approval_ids |-> fda_approval_ids,
     article_count |-> article_count, fda_count |-> fda_count,
     shortage_count |-> shortage_count]

----------------------------------------------------------------------------
(* DiffManager.create_current_snapshot *)

\* one iteration of the loop over shortage_articles
SnapshotShortageStep(shortage_status, title) ==
    IF Contains(title, MarkerShortage)
    THEN Put(shortage_status, Strip(Replace(title, MarkerShortage, <<>>)), "shortage")
    ELSE IF Contains(title, MarkerNormal) \/ Contains(title, MarkerResolved)
    THEN LET drug_name ==
                 Strip(Replace(Replace(title, MarkerNormal, <<>>), MarkerResolved, <<>>))
         IN  Put(shortage_status, Strip(Replace(drug_name, NotListed, <<>>)), "normal")
    ELSE shortage_status

RECURSIVE SnapshotShortageLoop(_, _)
SnapshotShortageLoop(shortage_status, items) ==
    IF items = <<>> THEN shortage_status
    ELSE SnapshotShortageLoop(SnapshotShortageStep(shortage_status, Head(items).title),
                              Tail(items))

\* the shortage_status dict of the snapshot
SnapshotShortageStatus(items) == SnapshotShortageLoop(EmptyDict, items)

\* SnapshotApprovalId without the fallback for a missing application number
SnapshotApprovalIdNumberOnly(a) == a.application_number

\* a.application_number or f"{a.drug_name}_{a.brand_name}"
SnapshotApprovalId(a) ==
    IF Truthy(a.application_number) THEN a.application_number
    ELSE a.drug_name \o "_" \o Format(a.brand_name)

CreateCurrentSnapshot(arts, shorts, fdas, clock) ==
    SurveySnapshot(clock,
                   {arts[i].url : i \in DOMAIN arts},
                   SnapshotShortageStatus(shorts),
                   {SnapshotApprovalId(fdas[i]) : i \in DOMAIN fdas},
                   Len(arts), Len(fdas), Len(shorts))

----------------------------------------------------------------------------
(* DiffManager.save_current_snapshot and _load_previous_snapshot *)

\* the JSON documents json.dump may write for a snapshot: list(set) enumerates
\* a set in an order the program does not control
SnapshotData(snap) ==
    {[timestamp |-> snap.timestamp,
      article_urls |-> us,
      shortage_status |-> snap.shortage_status,
      fda_approval_ids |-> ids,
      article_count |-> snap.article_count,
      fda_count |-> snap.fda_count,
      shortage_count |-> snap.shortage_count] :
        us \in ListsOf(snap.article_urls), ids \in ListsOf(snap.fda_approval_ids)}

\* SnapshotFromData with fda_approval_ids read from the article_urls entry
SnapshotFromDataWrongEntry(data) ==
    SurveySnapshot(data.timestamp,
                   Range(data.article_urls),
                   data.shortage_status,
                   Range(data.article_urls),
                   data.article_count, data.fda_count, data.shortage_count)

\* the snapshot built from a parsed document: data.get(key, default) per field
SnapshotFromData(data) ==
    SurveySnapshot(Get(data, "timestamp", NoTimestamp),
                   Range(Get(data, "article_urls", <<>>)),
                   Get(data, "shortage_status", EmptyDict),
                   Range(Get(data, "fda_approval_ids", <<>>)),
                   Get(data, "article_count", 0),
                   Get(data, "fda_count", 0),
                   Get(data, "shortage_count", 0))

\* a file whose text json.load rejects: empty, cut short, not JSON
Unparseable == <<[JSONDecodeError |-> TRUE]>>

\* json.load(f) raises
LoadRaises(file) == "JSONDecodeError" \in DOMAIN file[1]

\* previous_snapshot after _load_previous_snapshot (it starts as None, and the
\* handler of any exception sets it to None)
LoadPreviousSnapshot(file) ==
    IF file = <<>> THEN NoSnapshot
    ELSE IF LoadRaises(file) THEN NoSnapshot
    ELSE Some(SnapshotFromData(file[1]))

\* WriteSnapshotFile that keeps what the file already lists (a merge)
WriteSnapshotFileMerging(file, snap) ==
    IF file = <<>> THEN {<<data>> : data \in SnapshotData(snap)}
    ELSE {<<data>> : data \in SnapshotData(
              [snap EXCEPT !.article_urls = @ \cup Range(file[1].article_urls),
                           !.fda_approval_ids = @ \cup Range(file[1].fda_approval_ids)])}

\* the file after open(snapshot_file, 'w') and json.dump: the old content is
\* truncated away
WriteSnapshotFile(file, snap) == {<<data>> : data \in SnapshotData(snap)}

\* how the try block of save_current_snapshot ends: normally, with open()
\* raising, or with json.dump or the close raising after open() succeeded
SaveOutcomes == {"saved", "open_raises", "dump_raises"}

\* the file after save_current_snapshot; open(.., 'w') has emptied the file
\* before anything is written, and every exception is caught
SaveCurrentSnapshot(file, snap, io) ==
    IF io = "saved" THEN WriteSnapshotFile(file, snap)
    ELSE IF io = "open_raises" THEN {file}
    ELSE {Unparseable}

----------------------------------------------------------------------------
(* DiffManager.get_diff *)

\* the diff dict as initialised; previous_timestamp_display, a rendering of
\* previous_timestamp for the console, is left out
EmptyDiff(has_previous) ==
    [has_previous |-> has_previous,
     previous_timestamp |-> <<>>,
     new_articles |-> <<>>,
     new_article_count |-> 0,
     removed_article_count |-> 0,
     shortage_changes |-> <<>>,
     new_fda_approvals |-> <<>>,
     summary |-> [articles_delta |-> 0, fda_delta |-> 0,
                  has_shortage_changes |-> FALSE]]

\* for a in list: a.is_new = True
MarkAll(list) == [i \in DOMAIN list |-> [list[i] EXCEPT !.is_new = TRUE]]

\* FirstRunDiff without the loop over fda_approvals
FirstRunDiffArticlesOnly(arts, fdas) ==
    [diff |-> [EmptyDiff(FALSE) EXCEPT
                   !.new_articles = MarkAll(arts),
                   !.new_article_count = Len(arts),
                   !.new_fda_approvals = fdas],
     articles |-> MarkAll(arts),
     fda_approvals |-> fdas]

\* the branch taken when there is no previous snapshot
FirstRunDiff(arts, fdas) ==
    [diff |-> [EmptyDiff(FALSE) EXCEPT
                   !.new_articles = MarkAll(arts),
                   !.new_article_count = Len(arts),
                   !.new_fda_approvals = MarkAll(fdas)],
     articles |-> MarkAll(arts),
     fda_approvals |-> MarkAll(fdas)]

\* MarkNewArticles without the membership test
MarkNewArticlesAll(arts, prev_urls) == MarkAll(arts)

\* the article loop: is_new is set on the articles whose url is not in prev_urls
MarkNewArticles(arts, prev_urls) ==
    [i \in DOMAIN arts |->
        IF arts[i].url \notin prev_urls THEN [arts[i] EXCEPT !.is_new = TRUE]
        ELSE arts[i]]

\* NewArticles that skips the articles an earlier call has flagged
NewArticlesUnflagged(arts, prev_urls) ==
    SelectSeq(MarkNewArticles(arts, prev_urls),
              LAMBDA a : a.url \notin prev_urls
                         /\ \E i \in DOMAIN arts : arts[i].url = a.url /\ ~arts[i].is_new)

\* diff['new_articles'] after the article loop (the articles appended, in order)
NewArticles(arts, prev_urls) ==
    SelectSeq(MarkNewArticles(arts, prev_urls), LAMBDA a : a.url \notin prev_urls)

\* RemovedArticleCount with the difference taken the other way round
RemovedArticleCountReversed(arts, prev_urls) ==
    Cardinality({arts[i].url : i \in DOMAIN arts} \ prev_urls)

\* len(prev_urls - current_urls)
RemovedArticleCount(arts, prev_urls) ==
    Cardinality(prev_urls \ {arts[i].url : i \in DOMAIN arts})

\* one iteration of the loop that builds current_shortage
\* CurrentShortageStep with the "(not listed)" suffix left in the key
CurrentShortageStepKeepingSuffix(current_shortage, title) ==
    IF Contains(title, MarkerShortage)
    THEN Put(current_shortage, Strip(Replace(title, MarkerShortage, <<>>)), "shortage")
    ELSE IF Contains(title, MarkerNormal) \/ Contains(title, MarkerResolved)
    THEN Put(current_shortage,
             Strip(Replace(Replace(title, MarkerNormal, <<>>), MarkerResolved, <<>>)),
             "normal")
    ELSE current_shortage

CurrentShortageStep(current_shortage, title) ==
    IF Contains(title, MarkerShortage)
    THEN Put(current_shortage, Strip(Replace(title, MarkerShortage, <<>>)), "shortage")
    ELSE IF Contains(title, MarkerNormal) \/ Contains(title, MarkerResolved)
    THEN LET drug_name ==
                 Strip(Replace(Replace(title, MarkerNormal, <<>>), MarkerResolved, <<>>))
         IN  Put(current_shortage, Strip(Replace(drug_name, NotListed, <<>>)), "normal")
    ELSE current_shortage

RECURSIVE CurrentShortageLoop(_, _)
CurrentShortageLoop(current_shortage, items) ==
    IF items = <<>> THEN current_shortage
    ELSE CurrentShortageLoop(CurrentShortageStep(current_shortage, Head(items).title),
                             Tail(items))

\* current_shortage
CurrentShortage(items) == CurrentShortageLoop(EmptyDict, items)

\* the message prefixes: "<red circle> shin-ki kyo-kyu-fu-soku: ",
\* "<green circle> kyo-kyu-fu-soku kai-shou: ", "<red circle> kyo-kyu-fu-soku ken-shutsu: "
MsgNewShortage == <<"U+1F534", " ", "shin", "ki", "kyo", "kyu", "fu", "soku", ":", " ">>
MsgResolved    == <<"U+1F7E2", " ", "kyo", "kyu", "fu", "soku", "kai", "shou", ":", " ">>
MsgDetected    == <<"U+1F534", " ", "kyo", "kyu", "fu", "soku", "ken", "shutsu", ":", " ">>

ShortageChange(drug, change, message, severity) ==
    [drug |-> drug, change |-> change, message |-> message, severity |-> severity]

\* ClassifyTransition without the unknown -> shortage branch
ClassifyTransitionKnownOnly(drug, prev_status, curr_status) ==
    IF prev_status # curr_status
    THEN IF prev_status = "normal" /\ curr_status = "shortage"
         THEN <<ShortageChange(drug, "new_shortage", MsgNewShortage \o drug, "high")>>
         ELSE IF prev_status = "shortage" /\ curr_status = "normal"
         THEN <<ShortageChange(drug, "resolved", MsgResolved \o drug, "info")>>
         ELSE <<>>
    ELSE <<>>

\* the events one drug appends to diff['shortage_changes']
ClassifyTransition(drug, prev_status, curr_status) ==
    IF prev_status # curr_status
    THEN IF prev_status = "normal" /\ curr_status = "shortage"
         THEN <<ShortageChange(drug, "new_shortage", MsgNewShortage \o drug, "high")>>
         ELSE IF prev_status = "shortage" /\ curr_status = "normal"
         THEN <<ShortageChange(drug, "resolved", MsgResolved \o drug, "info")>>
         ELSE IF prev_status = "unknown" /\ curr_status = "shortage"
         THEN <<ShortageChange(drug, "new_shortage", MsgDetected \o drug, "high")>>
         ELSE <<>>
    ELSE <<>>

\* the loop over all_drugs, a set: it is visited in the order `order` gives
RECURSIVE TransitionLoop(_, _, _)
TransitionLoop(drugs, prev_shortage, current_shortage) ==
    IF drugs = <<>> THEN <<>>
    ELSE ClassifyTransition(Head(drugs),
                            Get(prev_shortage, Head(drugs), "unknown"),
                            Get(current_shortage, Head(drugs), "unknown"))
         \o TransitionLoop(Tail(drugs), prev_shortage, current_shortage)

ShortageChanges(prev_shortage, current_shortage, order) ==
    LET all_drugs == (DOMAIN prev_shortage) \cup (DOMAIN current_shortage)
    IN  TransitionLoop(SelectSeq(order, LAMBDA d : d \in all_drugs),
                       prev_shortage, current_shortage)

\* ApprovalId as the key FDAApiClient de-duplicates by
ApprovalIdDedupKey(approval) ==
    approval.drug_name \o "_" \o Format(approval.application_number)

\* approval.application_number or f"{approval.drug_name}_{approval.brand_name}"
ApprovalId(approval) ==
    IF Truthy(approval.application_number) THEN approval.application_number
    ELSE approval.drug_name \o "_" \o Format(approval.brand_name)

\* the filing loop
MarkNewApprovals(fdas, prev_fda_ids) ==
    [i \in DOMAIN fdas |->
        IF ApprovalId(fdas[i]) \notin prev_fda_ids THEN [fdas[i] EXCEPT !.is_new = TRUE]
        ELSE fdas[i]]

NewApprovals(fdas, prev_fda_ids) ==
    SelectSeq(MarkNewApprovals(fdas, prev_fda_ids),
              LAMBDA a : ApprovalId(a) \notin prev_fda_ids)

\* the summary block
\* Summary with deltas that leave the previous counts out
SummaryOfCurrent(arts, fdas, prev, shortage_changes) ==
    [articles_delta |-> Len(arts),
     fda_delta |-> Len(fdas),
     has_shortage_changes |-> Len(shortage_changes) > 0]

Summary(arts, fdas, prev, shortage_changes) ==
    [articles_delta |-> Len(arts) - prev.article_count,
     fda_delta |-> Len(fdas) - prev.fda_count,
     has_shortage_changes |-> Len(shortage_changes) > 0]

\* the branch taken with a previous snapshot
SubsequentDiff(prev, arts, shorts, fdas, order) ==
    LET changes == ShortageChanges(prev.shortage_status, CurrentShortage(shorts), order)
    IN  [diff |-> [EmptyDiff(TRUE) EXCEPT
                       !.previous_timestamp = <<prev.timestamp>>,
                       !.new_articles = NewArticles(arts, prev.article_urls),
                       !.new_article_count = Len(NewArticles(arts, prev.article_urls)),
                       !.removed_article_count =
                            RemovedArticleCount(arts, prev.article_urls),
                       !.shortage_changes = changes,
                       !.new_fda_approvals = NewApprovals(fdas, prev.fda_approval_ids),
                       !.summary = Summary(arts, fdas, prev, changes)],
         articles |-> MarkNewArticles(arts, prev.article_urls),
         fda_approvals |-> MarkNewApprovals(fdas, prev.fda_approval_ids)]

\* get_diff: the returned diff and the argument lists as the call leaves them
GetDiff(previous_snapshot, arts, shorts, fdas, order) ==
    IF previous_snapshot = NoSnapshot
    THEN FirstRunDiff(arts, fdas)
    ELSE SubsequentDiff(previous_snapshot[1], arts, shorts, fdas, order)

----------------------------------------------------------------------------
(* The inputs the specifications draw from *)

URLs == {"A", "B", "C"}

\* two spellings of one drug name, differing in letter case only
NameOz      == <<"O", "z">>
NameOzLower == <<"o", "z">>
Names == {NameOz, NameOzLower}

\* DrugShortageMonitor.SHORTAGE_DB_URL
ShortageDbUrl == "https://www.accessdata.fda.gov/scripts/drugshortages/default.cfm"

\* the titles of the shortage items: every kind of title for one spelling, the
\* shortage title for the other
Titles ==
    {TitleShortage(n) : n \in Names}
    \cup {TitleResolved(NameOz), TitleNotListed(NameOz), TitleNoAccess}

Filings ==
    {DrugApproval("sema", "Oz", "N1"),
     DrugApproval("sema", "Oz", NoneStr),
     DrugApproval("sema", NoneStr, NoneStr),
     DrugApproval("sema", "Oz", "")}

ArticleLists  == SeqsUpTo({Article(u) : u \in URLs}, MaxArticles)
ShortageLists == SeqsUpTo({ShortageArticle(t, ShortageDbUrl) : t \in Titles}, MaxShortage)
FilingLists   == SeqsUpTo(Filings, MaxFilings)

Inputs(arts, shorts, fdas) ==
    [articles |-> arts, shortage_articles |-> shorts, fda_approvals |-> fdas]

\* the arguments of the previous and of the current run when only one of the
\* three lists is varied
BasePrev == Inputs(<<Article("A"), Article("B")>>,
                   <<ShortageArticle(TitleNotListed(NameOz), ShortageDbUrl)>>,
                   <<DrugApproval("sema", "Oz", "N1")>>)
BaseCur  == Inputs(<<Article("B"), Article("C")>>,
                   <<ShortageArticle(TitleShortage(NameOz), ShortageDbUrl)>>,
                   <<DrugApproval("sema", "Oz", "N1"), DrugApproval("sema", "Oz", NoneStr)>>)

----------------------------------------------------------------------------
(* SpecDiff: one DiffManager, driven as run_survey drives it *)

\* DiffManager.__init__
DiffManager(file) ==
    [previous_snapshot |-> LoadPreviousSnapshot(file), current_snapshot |-> NoSnapshot]

\* a manager object: its DiffManager and its seen_urls
Manager(file, seen) == [dm |-> DiffManager(file), seen_urls |-> seen]

\* the orders in which get_diff can visit all_drugs for these two lists
DrugOrders(prev_shorts, cur_shorts) ==
    ListsOf((DOMAIN SnapshotShortageStatus(prev_shorts)) \cup (DOMAIN CurrentShortage(cur_shorts)))

\* the state in which a DiffManager is about to be asked for the diff of the
\* arguments cur: on a first run, or after a run on the arguments prev whose
\* snapshot it has loaded.  The files play no part in SpecDiff and stay absent.
DiffInitOn(prev, cur) ==
    /\ snapshot_file = <<>>
    /\ seen_file = <<>>
    /\ \/ /\ mgr = <<Manager(<<>>, {})>>
          /\ history = [prev_fda_approvals |-> <<>>]
       \/ /\ \E data \in SnapshotData(CreateCurrentSnapshot(
                             prev.articles, prev.shortage_articles, prev.fda_approvals, 1)) :
                mgr = <<Manager(<<data>>, {})>>
          /\ history = [prev_fda_approvals |-> prev.fda_approvals]
    /\ articles = cur.articles
    /\ shortage_articles = cur.shortage_articles
    /\ fda_approvals = cur.fda_approvals
    /\ returned = <<>>
    /\ hash_seed \in DrugOrders(prev.shortage_articles, cur.shortage_articles)
    /\ now = 2
    /\ pc = "start"

\* (previous run's arguments, this run's arguments): one of the three lists
\* ranges over all its bounded values in both runs, the other two are the
\* base lists
DiffInit ==
    \/ \E p \in ArticleLists, c \in ArticleLists :
          DiffInitOn([BasePrev EXCEPT !.articles = p], [BaseCur EXCEPT !.articles = c])
    \/ \E p \in ShortageLists, c \in ShortageLists :
          DiffInitOn([BasePrev EXCEPT !.shortage_articles = p],
                     [BaseCur EXCEPT !.shortage_articles = c])
    \/ \E p \in FilingLists, c \in FilingLists :
          DiffInitOn([BasePrev EXCEPT !.fda_approvals = p],
                     [BaseCur EXCEPT !.fda_approvals = c])

\* diff_manager.get_diff(all_articles, shortage_articles, fda_approvals),
\* a first and a second time on the same arguments
DiffGetDiff ==
    /\ pc \in {"start", "diffed"}
    /\ LET r == GetDiff(mgr[1].dm.previous_snapshot, articles, shortage_articles,
                        fda_approvals, hash_seed)
       IN  /\ articles' = r.articles
           /\ fda_approvals' = r.fda_approvals
           /\ returned' = Append(returned, r.diff)
    /\ pc' = IF pc = "start" THEN "diffed" ELSE "again"
    /\ UNCHANGED <<snapshot_file, seen_file, mgr, shortage_articles, hash_seed, now, history>>

\* diff_manager.create_current_snapshot(all_articles, shortage_articles, fda_approvals)
DiffCreateSnapshot ==
    /\ pc \in {"diffed", "again"}
    /\ mgr' = [mgr EXCEPT ![1].dm.current_snapshot =
                  Some(CreateCurrentSnapshot(articles, shortage_articles, fda_approvals, now))]
    /\ now' = now + 1
    /\ pc' = "snapshot"
    /\ UNCHANGED <<snapshot_file, seen_file, articles, shortage_articles, fda_approvals,
                   returned, hash_seed, history>>

DiffNext == DiffGetDiff \/ DiffCreateSnapshot

SpecDiff == DiffInit /\ [][DiffNext]_vars

----------------------------------------------------------------------------
(* GLP1SurveyManager *)

\* _load_seen_urls
LoadSeenUrlsEmpty(file) == {}

LoadSeenUrls(file) == IF file = <<>> THEN {} ELSE Range(file[1])

\* the file after _save_seen_urls: json.dump(list(self.seen_urls))
WriteSeenFile(file, seen_urls) == {<<urls>> : urls \in ListsOf(seen_urls)}

\* GLP1SurveyManager(config_path): seen_urls, then the DiffManager
NewSurveyManager(snap_file, seen_urls_file) == Manager(snap_file, LoadSeenUrls(seen_urls_file))

\* config "sources": three article sources, the shortage page (handled by the
\* shortage monitor) and a disabled source
Sources ==
    <<[name |-> "feed", url |-> "F", source_type |-> "rss", subcategory |-> NoneStr,
       enabled |-> TRUE],
      [name |-> "page", url |-> "P", source_type |-> "web", subcategory |-> NoneStr,
       enabled |-> TRUE],
      [name |-> "shortages", url |-> "S", source_type |-> "web",
       subcategory |-> "drug_shortages", enabled |-> TRUE],
      [name |-> "off", url |-> "O", source_type |-> "web", subcategory |-> NoneStr,
       enabled |-> FALSE],
      [name |-> "letters", url |-> "W", source_type |-> "web",
       subcategory |-> "warning_letters", enabled |-> TRUE]>>

\* enabled_sources
EnabledSources == SelectSeq(Sources, LAMBDA src : src.enabled)

\* what one adapter call does: it raises, or returns a list of articles
Raises == [raises |-> TRUE, articles |-> <<>>]
Returns(list) == [raises |-> FALSE, articles |-> list]

\* one iteration of the loop over enabled_sources with the exception caught
\* and nothing kept
CollectStepLosingAll(source, outcome, include_seen, acc) ==
    IF source.subcategory = "drug_shortages" THEN acc
    ELSE IF outcome[source.name].raises THEN [acc EXCEPT !.all_articles = <<>>]
    ELSE LET fetched == outcome[source.name].articles
             kept == IF ~include_seen
                     THEN SelectSeq(fetched, LAMBDA a : a.url \notin acc.seen_urls)
                     ELSE fetched
         IN  [all_articles |-> acc.all_articles \o kept,
              seen_urls |-> acc.seen_urls \cup {kept[i].url : i \in DOMAIN kept}]

\* one iteration of the loop over enabled_sources: the shortage page is
\* skipped, an adapter that raises leaves all_articles and seen_urls alone
CollectStep(source, outcome, include_seen, acc) ==
    IF source.subcategory = "drug_shortages" THEN acc
    ELSE IF outcome[source.name].raises THEN acc
    ELSE LET fetched == outcome[source.name].articles
             kept == IF ~include_seen
                     THEN SelectSeq(fetched, LAMBDA a : a.url \notin acc.seen_urls)
                     ELSE fetched
         IN  [all_articles |-> acc.all_articles \o kept,
              seen_urls |-> acc.seen_urls \cup {kept[i].url : i \in DOMAIN kept}]

\* the loop over enabled_sources: all_articles and self.seen_urls after it
RECURSIVE CollectLoop(_, _, _, _, _)
CollectLoop(srcs, outcome, include_seen, seen_urls, all_articles) ==
    IF srcs = <<>> THEN [all_articles |-> all_articles, seen_urls |-> seen_urls]
    ELSE LET acc == CollectStep(Head(srcs), outcome, include_seen,
                                [all_articles |-> all_articles, seen_urls |-> seen_urls])
         IN  CollectLoop(Tail(srcs), outcome, include_seen, acc.seen_urls, acc.all_articles)

\* the orders in which get_diff can visit all_drugs
VisitOrders(previous_snapshot, shorts) ==
    IF previous_snapshot = NoSnapshot THEN {<<>>}
    ELSE ListsOf((DOMAIN previous_snapshot[1].shortage_status)
                 \cup (DOMAIN CurrentShortage(shorts)))

----------------------------------------------------------------------------
(* Spec: managers are constructed and run over the two persisted files *)

\* what the adapter calls of one run do: the first source raises, or the
\* middle one does, or none does and two return the same article or each its
\* own; the letters page has an item only in the second case
SourceOutcomes ==
    {[feed |-> Raises, page |-> Returns(<<Article("A")>>), letters |-> Returns(<<>>)],
     [feed |-> Returns(<<Article("A")>>), page |-> Raises,
      letters |-> Returns(<<Article("B")>>)],
     [feed |-> Returns(<<Article("A")>>), page |-> Returns(<<Article("A")>>),
      letters |-> Returns(<<>>)],
     [feed |-> Returns(<<Article("A")>>), page |-> Returns(<<Article("B")>>),
      letters |-> Returns(<<>>)]}

\* what the shortage monitor and the FDA client return in a run
RegulatorOutputs ==
    {[shortage_articles |-> BasePrev.shortage_articles, fda_approvals |-> BasePrev.fda_approvals],
     [shortage_articles |-> BaseCur.shortage_articles, fda_approvals |-> BaseCur.fda_approvals]}

\* the (drug, status) pairs of a shortage status map
Entries(shortage_status) == {<<k, shortage_status[k]>> : k \in DOMAIN shortage_status}

\* the inputs of a run_survey call: its argument, what the adapters do and how
\* the snapshot save ends (what the regulator clients return is kept in
\* shortage_articles and fda_approvals)
RunInput(include_seen, outcome, io) ==
    [include_seen |-> include_seen, outcome |-> outcome, io |-> io]

Init ==
    /\ snapshot_file = <<>>
    /\ seen_file = <<>>
    /\ mgr = <<>>
    /\ articles = <<>>
    /\ shortage_articles = <<>>
    /\ fda_approvals = <<>>
    /\ returned = <<>>
    /\ hash_seed = <<>>
    /\ now = 1
    /\ pc = "idle"
    /\ history = [runs |-> 0,               \* run_survey calls completed
                  last_saved |-> NoSnapshot,   \* the snapshot the last successful save wrote
                  saved_before |-> NoSnapshot, \* last_saved when the last run began
                  used_prev |-> NoSnapshot,    \* previous_snapshot the last run diffed against
                  loaded |-> <<>>,             \* per manager: last_saved when it was built
                  superseded |-> [urls |-> {}, ids |-> {}, entries |-> {}],
                                               \* what the snapshots saved earlier held
                  built_on |-> <<>>,           \* per manager: snapshot_file when it was built
                  ran |-> 0,                   \* the manager of the last run
                  input |-> <<>>]              \* the inputs of the last run

\* the GLP1SurveyManager instances of the model, in the order they are constructed
Managers == <<"m1", "m2">>

\* manager = GLP1SurveyManager(config_path)
Construct ==
    /\ Len(mgr) < Len(Managers)
    /\ mgr' = Append(mgr, NewSurveyManager(snapshot_file, seen_file))
    /\ history' = [history EXCEPT !.loaded = Append(@, history.last_saved),
                                  !.built_on = Append(@, snapshot_file)]
    /\ UNCHANGED <<snapshot_file, seen_file, articles, shortage_articles, fda_approvals,
                   returned, hash_seed, now, pc>>

\* manager.run_survey(include_seen) with the report and seen-URL writes
\* succeeding and the snapshot save ending as io says
\* what can go wrong after the snapshot was saved: the report file cannot be
\* written (the exception leaves run_survey), or seen_urls.json cannot be
\* opened for writing (the exception is swallowed)
LateOutcomes == {"report_raises", "seen_open_raises"}

\* how save_current_snapshot fares in a run whose I/O goes as io says
SnapshotIo(io) == IF io \in LateOutcomes THEN "saved" ELSE io

\* seen_urls.json after the run: _save_seen_urls() is not reached, fails to
\* open the file, or writes the list
SaveSeenUrls(file, seen_urls, io) ==
    IF io \in LateOutcomes THEN {file} ELSE WriteSeenFile(file, seen_urls)

RunSurveyWith(m, include_seen, outcome, reg, io) ==
    /\ history.runs < MaxRuns
    /\ LET col == CollectLoop(EnabledSources, outcome, include_seen, mgr[m].seen_urls, <<>>)
           previous_snapshot == mgr[m].dm.previous_snapshot
       IN  \E order \in VisitOrders(previous_snapshot, reg.shortage_articles) :
             LET r == GetDiff(previous_snapshot, col.all_articles, reg.shortage_articles,
                              reg.fda_approvals, order)
                 snap == CreateCurrentSnapshot(r.articles, reg.shortage_articles,
                                               r.fda_approvals, now)
             IN  /\ mgr' = [mgr EXCEPT ![m].seen_urls = col.seen_urls,
                                       ![m].dm.current_snapshot = Some(snap)]
                 /\ snapshot_file' \in SaveCurrentSnapshot(snapshot_file, snap, SnapshotIo(io))
                 /\ seen_file' \in SaveSeenUrls(seen_file, col.seen_urls, io)
                 /\ articles' = r.articles
                 /\ shortage_articles' = reg.shortage_articles
                 /\ fda_approvals' = r.fda_approvals
                 /\ returned' = <<r.diff>>
                 /\ hash_seed' = order
                 /\ history' =
                       [history EXCEPT
                           !.runs = @ + 1,
                           !.last_saved = IF SnapshotIo(io) = "saved" THEN Some(snap) ELSE @,
                           !.saved_before = history.last_saved,
                           !.used_prev = previous_snapshot,
                           !.superseded =
                               IF history.last_saved = NoSnapshot \/ SnapshotIo(io) # "saved" THEN @
                               ELSE [urls |-> @.urls \cup history.last_saved[1].article_urls,
                                     ids |-> @.ids \cup history.last_saved[1].fda_approval_ids,
                                     entries |-> @.entries \cup
                                         Entries(history.last_saved[1].shortage_status)],
                           !.ran = m,
                           !.input = RunInput(include_seen, outcome, io)]
    /\ now' = now + 1
    /\ UNCHANGED pc

\* manager.run_survey(include_seen), every write succeeding
RunSurvey(m, include_seen, outcome, reg) ==
    RunSurveyWith(m, include_seen, outcome, reg, "saved")

Run ==
    \E m \in DOMAIN mgr, include_seen \in BOOLEAN,
       outcome \in SourceOutcomes, reg \in RegulatorOutputs :
        RunSurvey(m, include_seen, outcome, reg)

Next == Construct \/ Run

Spec == Init /\ [][Next]_vars

----------------------------------------------------------------------------
(* SpecFaults: Spec with a snapshot file that can be damaged between runs and
   a snapshot save that can fail *)

\* the keys of the document save_current_snapshot writes
SnapshotKeys == {"timestamp", "article_urls", "shortage_status", "fda_approval_ids",
                 "article_count", "fda_count", "shortage_count"}

\* damaged contents of last_snapshot.json: a text that is not JSON, and the
\* object {}
DamagedFiles == {Unparseable, <<EmptyDict>>}

\* something other than the program rewrites the existing last_snapshot.json
Damage ==
    /\ snapshot_file # <<>>
    /\ snapshot_file' \in DamagedFiles \ {snapshot_file}
    /\ UNCHANGED <<seen_file, mgr, articles, shortage_articles, fda_approvals,
                   returned, hash_seed, now, pc, history>>

\* in SpecFaults every adapter call returns: the feed one article, the page
\* another, the letters page none
BothReturn == [feed |-> Returns(<<Article("A")>>), page |-> Returns(<<Article("B")>>),
               letters |-> Returns(<<>>)]

RunFaulty ==
    \E m \in DOMAIN mgr, include_seen \in BOOLEAN,
       reg \in RegulatorOutputs, io \in SaveOutcomes :
        RunSurveyWith(m, include_seen, BothReturn, reg, io)

NextFaults == Construct \/ RunFaulty \/ Damage

SpecFaults == Init /\ [][NextFaults]_vars

----------------------------------------------------------------------------
(* SpecAborts: Spec with runs that fail after the snapshot was saved *)

RunAborting ==
    \E m \in DOMAIN mgr, include_seen \in BOOLEAN,
       reg \in RegulatorOutputs, io \in LateOutcomes \cup {"saved"} :
        RunSurveyWith(m, include_seen, BothReturn, reg, io)

NextAborts == Construct \/ RunAborting

SpecAborts == Init /\ [][NextAborts]_vars

----------------------------------------------------------------------------
(* RelevanceMatcher.  Texts and keywords are character sequences. *)

MaxText == 2            \* longest text handed to the matcher

\* the categories, in the order of the keys of self.patterns
Categories == <<"indication", "drug_class", "drug_name", "brand_name", "company",
                "regulatory">>

\* the weights used when the configuration has no relevance_weights
DefaultWeights == [indication |-> 3, drug_class |-> 3, drug_name |-> 4,
                   brand_name |-> 4, company |-> 1, regulatory |-> 2]

\* for data in entries: for alias in data.get(field, []): append(alias.lower())
RECURSIVE LowerAliases(_, _)
LowerAliases(entries, field) ==
    IF entries = <<>> THEN <<>>
    ELSE LET listed == Get(Head(entries), field, <<>>)
         IN  [i \in DOMAIN listed |-> Lower(listed[i])]
                 \o LowerAliases(Tail(entries), field)

\* _build_patterns(); a dict of entries is the sequence of its values()
BuildPatterns(config) ==
    LET terms == Get(config, "search_terms", EmptyDict)
    IN  [indication |-> LowerAliases(Get(terms, "indications", <<>>), "aliases"),
         drug_class |-> LowerAliases(Get(terms, "drug_classes", <<>>), "aliases"),
         drug_name  |-> LowerAliases(Get(terms, "drug_names", <<>>), "aliases"),
         brand_name |-> LowerAliases(Get(terms, "drug_names", <<>>), "brands"),
         company    |-> LowerAliases(Get(terms, "companies", <<>>), "aliases"),
         regulatory |-> LowerAliases(<<Get(terms, "regulatory_terms", EmptyDict)>>,
                                     "aliases")]

\* RelevanceMatcher(config)
NewRelevanceMatcher(config) ==
    [weights  |-> Get(config, "relevance_weights", DefaultWeights),
     patterns |-> BuildPatterns(config)]

\* for pattern in patterns: ...
RECURSIVE PatternLoop(_, _, _, _)
PatternLoop(patterns, weight, text_lower, acc) ==
    IF patterns = <<>> THEN acc
    ELSE LET pattern == Head(patterns)
             after ==
                 IF Contains(text_lower, pattern)
                 THEN [total_score   |-> acc.total_score + weight,
                       matched_terms |->
                           IF pattern \in Range(acc.matched_terms)
                           THEN acc.matched_terms
                           ELSE Append(acc.matched_terms, pattern)]
                 ELSE acc
         IN  PatternLoop(Tail(patterns), weight, text_lower, after)

\* for category, patterns in self.patterns.items(): ...
RECURSIVE CategoryLoop(_, _, _, _)
CategoryLoop(categories, matcher, text_lower, acc) ==
    IF categories = <<>> THEN acc
    ELSE LET category == Head(categories)
             weight   == Get(matcher.weights, category, 1)
         IN  CategoryLoop(Tail(categories), matcher, text_lower,
                          PatternLoop(matcher.patterns[category], weight, text_lower, acc))

\* matcher.calculate_relevance(text)
CalculateRelevance(matcher, text) ==
    IF text = <<>> THEN [score |-> 0, matched_terms |-> <<>>]
    ELSE LET r == CategoryLoop(Categories, matcher, Lower(text),
                               [total_score |-> 0, matched_terms |-> <<>>])
         IN  [score |-> r.total_score, matched_terms |-> r.matched_terms]

IsRelevantAbove(matcher, text, threshold) ==
    CalculateRelevance(matcher, text).score > threshold

\* matcher.is_relevant(text, threshold)
IsRelevant(matcher, text, threshold) ==
    CalculateRelevance(matcher, text).score >= threshold

----------------------------------------------------------------------------
(* SpecMatcher: one matcher, built from a configuration, scores two texts and
   judges both against thresholds *)

TextChars == {"G", "g", "x"}

Texts == UNION {[1..n -> TextChars] : n \in 0..MaxText}

\* the thresholds passed to is_relevant (1 is the default)
Thresholds == {0, 1, 4}

Aliases(list) == [aliases |-> list]

Drug(aliases, brands) == [aliases |-> aliases, brands |-> brands]

\* configurations: the default one (no keywords); keywords of two categories
\* under the default weights; one keyword as a drug's alias and as its brand;
\* one keyword listed by two indications in different case; a category with
\* weight 0; a category with a negative weight
MatcherConfigs ==
    { [search_terms |-> [indications |-> <<>>, drug_names |-> <<>>,
                         drug_classes |-> <<>>]],
      [search_terms |-> [indications |-> <<Aliases(<< <<"G", "x">> >>)>>,
                         companies   |-> <<Aliases(<< <<"x">> >>)>>]],
      [search_terms |-> [drug_names |-> <<Drug(<< <<"g">> >>, << <<"g">> >>)>>]],
      [search_terms |-> [indications |-> <<Aliases(<< <<"g">> >>),
                                           Aliases(<< <<"G">> >>)>>]],
      [search_terms |-> [drug_names |-> <<Drug(<< <<"g">> >>, <<>>)>>,
                         companies  |-> <<Aliases(<< <<"x">> >>)>>],
       relevance_weights |-> [drug_name |-> 4, company |-> 0]],
      [search_terms |-> [drug_classes |-> <<Aliases(<< <<"g">> >>)>>,
                         regulatory_terms |-> Aliases(<< <<"x">> >>)],
       relevance_weights |-> [drug_class |-> 2, regulatory |-> -2]] }

\* a matcher and the two texts it will be asked about
MatcherInit ==
    \E config \in MatcherConfigs, t1 \in Texts, t2 \in Texts :
        /\ mgr = <<[matcher |-> NewRelevanceMatcher(config)]>>
        /\ articles = <<t1, t2>>
        /\ snapshot_file = <<>>
        /\ seen_file = <<>>
        /\ shortage_articles = <<>>
        /\ fda_approvals = <<>>
        /\ returned = <<>>
        /\ hash_seed = 1
        /\ now = 1
        /\ pc = "start"
        /\ history = [config |-> config]

\* matcher.calculate_relevance(text), on the first text and then on the second
MatchCalculate ==
    /\ pc \in {"start", "scored"}
    /\ LET text == articles[IF pc = "start" THEN 1 ELSE 2]
       IN  returned' = Append(returned,
               [call |-> "calculate_relevance", text |-> text,
                result |-> CalculateRelevance(mgr[1].matcher, text)])
    /\ pc' = IF pc = "start" THEN "scored" ELSE "scored_both"
    /\ UNCHANGED <<snapshot_file, seen_file, mgr, articles, shortage_articles,
                   fda_approvals, hash_seed, now, history>>

\* matcher.is_relevant(text, threshold), on the second text and then on the first
MatchIsRelevant ==
    /\ pc \in {"scored_both", "judged"}
    /\ \E threshold \in Thresholds :
        LET text == articles[IF pc = "scored_both" THEN 2 ELSE 1]
        IN  returned' = Append(returned,
                [call |-> "is_relevant", text |-> text, threshold |-> threshold,
                 result |-> IsRelevant(mgr[1].matcher, text, threshold)])
    /\ pc' = IF pc = "scored_both" THEN "judged" ELSE "judged_both"
    /\ UNCHANGED <<snapshot_file, seen_file, mgr, articles, shortage_articles,
                   fda_approvals, hash_seed, now, history>>

MatcherNext == MatchCalculate \/ MatchIsRelevant

SpecMatcher == MatcherInit /\ [][MatcherNext]_vars

----------------------------------------------------------------------------
(* The adapters' fetch_articles: from the records of a feed or a page to
   Articles.  Every adapter keeps a record when its text scores above 0. *)

\* the matcher the adapters share: one drug name, default weights
AdapterMatcher ==
    NewRelevanceMatcher([search_terms |-> [drug_names |-> <<Drug(<< <<"g">> >>, <<>>)>>]])

\* urljoin(base, href); the hrefs of the model are absolute URLs
Urljoin(base, href) == href

\* RSSFetcher.fetch_articles(source) on the entries of the parsed feed
RECURSIVE RSSFetchArticles(_, _)
RSSFetchArticles(source, entries) ==
    IF entries = <<>> THEN <<>>
    ELSE LET entry      == Head(entries)
             title      == Get(entry, "title", <<>>)
             link       == Get(entry, "link", "")
             summary    == Get(entry, "summary", Get(entry, "description", <<>>))
             check_text == title \o <<" ">> \o summary
             score      == CalculateRelevance(AdapterMatcher, check_text).score
         IN  (IF score > 0 THEN <<Article(link)>> ELSE <<>>)
                 \o RSSFetchArticles(source, Tail(entries))

\* WebScraper.fetch_articles(source) on the elements the article selector finds
RECURSIVE WebFetchArticles(_, _)
WebFetchArticles(source, elements) ==
    IF elements = <<>> THEN <<>>
    ELSE LET elem  == Head(elements)
             title == elem.title
             link  == IF elem.href # "" THEN Urljoin(source.url, elem.href) ELSE ""
             score == CalculateRelevance(AdapterMatcher, title).score
         IN  (IF title # <<>> /\ score > 0
              THEN <<Article(IF link # "" THEN link ELSE source.url)>>
              ELSE <<>>)
                 \o WebFetchArticles(source, Tail(elements))

WARNING_LETTERS_URL == "W"

\* WarningLettersScraper.fetch_articles(source) on the rows of the table
RECURSIVE WarningLettersFetchArticles(_, _)
WarningLettersFetchArticles(source, rows) ==
    IF rows = <<>> THEN <<>>
    ELSE LET row        == Head(rows)
             letter_url == IF row.href # "" THEN Urljoin(WARNING_LETTERS_URL, row.href)
                           ELSE ""
             check_text == row.company_name \o <<" ">> \o row.subject \o <<" ">>
                               \o row.issuing_office
             matched    == CalculateRelevance(AdapterMatcher, check_text).score
             score      == IF \/ Contains(Lower(row.issuing_office), <<"c", "d", "e", "r">>)
                              \/ Contains(Lower(row.subject), <<"d", "r", "u", "g">>)
                           THEN matched + 2 ELSE matched
         IN  (IF score > 0
              THEN <<Article(IF letter_url # "" THEN letter_url ELSE WARNING_LETTERS_URL)>>
              ELSE <<>>)
                 \o WarningLettersFetchArticles(source, Tail(rows))

\* the source named name
SourceNamed(name) == CHOOSE src \in Range(Sources) : src.name = name

\* the adapter calls of one run on what the three sites serve
FetchAll(served) ==
    [feed    |-> Returns(RSSFetchArticles(SourceNamed("feed"), served.feed)),
     page    |-> Returns(WebFetchArticles(SourceNamed("page"), served.page)),
     letters |-> Returns(WarningLettersFetchArticles(SourceNamed("letters"),
                                                     served.letters))]

Letter(company_name, href, issuing_office) ==
    [company_name |-> company_name, href |-> href, subject |-> <<>>,
     issuing_office |-> issuing_office]

\* what the sites serve during one run: records with and without a link of
\* their own, with a text that matches the keyword, one that does not, a
\* matching summary under a title that does not match, two entries of one
\* feed with the same link, a page element without a title, a letter that is
\* relevant by its issuing office alone
Served ==
    { [feed    |-> <<[title |-> <<"G">>, link |-> "A"]>>,
       page    |-> <<[title |-> <<"g">>, href |-> ""]>>,
       letters |-> <<Letter(<<"x">>, "", <<"c", "d", "e", "r">>)>>],
      [feed    |-> <<[title |-> <<"g">>]>>,
       page    |-> <<[title |-> <<>>, href |-> "B"]>>,
       letters |-> <<>>],
      [feed    |-> <<[title |-> <<"x">>, summary |-> <<"g">>, link |-> "B"],
                     [title |-> <<"g">>, link |-> "B"]>>,
       page    |-> <<[title |-> <<"g", "x">>, href |-> "B"]>>,
       letters |-> <<Letter(<<"x">>, "A", <<"x">>)>>],
      [feed    |-> <<[title |-> <<"x">>, link |-> "A"]>>,
       page    |-> <<[title |-> <<"x">>, href |-> "A"]>>,
       letters |-> <<Letter(<<"g">>, "A", <<"x">>)>>] }

\* in SpecAdapters the shortage monitor and the FDA client return the same
\* lists in every run
SameRegulatorOutput ==
    [shortage_articles |-> BaseCur.shortage_articles, fda_approvals |-> BaseCur.fda_approvals]

\* manager.run_survey(include_seen) with the adapters working on what is served
RunFetched ==
    \E m \in DOMAIN mgr, include_seen \in BOOLEAN, served \in Served :
        RunSurvey(m, include_seen, FetchAll(served), SameRegulatorOutput)

NextAdapters == Construct \/ RunFetched

SpecAdapters == Init /\ [][NextAdapters]_vars

----------------------------------------------------------------------------
(* DrugApproval.to_article.  submission_status and indication are character
   sequences (<<>> stands for None and for ''), the names and the dosage form
   are strings, a title is the sequence of its pieces. *)

\* status_map of _get_status_emoji, in the order of its keys; "shou" "nin" is
\* the two-character key for approved, "zan" "tei" tentative, "ju" "ri"
\* filed, "shin" "sei" submitted, "shin" "sa" review, "hi" "shou" "nin" not
\* approved, "tek" "kai" withdrawn
StatusMap ==
    <<[key |-> <<"a", "p", "p", "r", "o", "v", "e", "d">>, emoji |-> "U+2705"],
      [key |-> <<"shou", "nin">>, emoji |-> "U+2705"],
      [key |-> <<"t", "e", "n", "t", "a", "t", "i", "v", "e">>, emoji |-> "U+2611"],
      [key |-> <<"zan", "tei">>, emoji |-> "U+2611"],
      [key |-> <<"f", "i", "l", "e", "d">>, emoji |-> "U+1F4C4"],
      [key |-> <<"ju", "ri">>, emoji |-> "U+1F4C4"],
      [key |-> <<"s", "u", "b", "m", "i", "t", "t", "e", "d">>, emoji |-> "U+1F4DD"],
      [key |-> <<"shin", "sei">>, emoji |-> "U+1F4DD"],
      [key |-> <<"r", "e", "v", "i", "e", "w">>, emoji |-> "U+1F50D"],
      [key |-> <<"shin", "sa">>, emoji |-> "U+1F50D"],
      [key |-> <<"p", "e", "n", "d", "i", "n", "g">>, emoji |-> "U+23F3"],
      [key |-> <<"n", "o", "t", "_", "a", "p", "p", "r", "o", "v", "e", "d">>,
       emoji |-> "U+274C"],
      [key |-> <<"hi", "shou", "nin">>, emoji |-> "U+274C"],
      [key |-> <<"w", "i", "t", "h", "d", "r", "a", "w", "n">>, emoji |-> "U+1F519"],
      [key |-> <<"tek", "kai">>, emoji |-> "U+1F519"]>>

\* the marker returned when no key matches
GenericEmoji == "U+1F4CB"

\* for key, emoji in status_map.items(): if key in status_lower: return emoji
RECURSIVE StatusLoop(_, _)
StatusLoop(entries, status_lower) ==
    IF entries = <<>> THEN GenericEmoji
    ELSE IF Contains(status_lower, Head(entries).key) THEN Head(entries).emoji
    ELSE StatusLoop(Tail(entries), status_lower)

\* approval._get_status_emoji()
GetStatusEmoji(approval) ==
    StatusLoop(StatusMap,
               IF approval.submission_status # <<>> THEN Lower(approval.submission_status)
               ELSE <<>>)

\* the length to which to_article cuts the indication
IndicationLimit == 50

\* s[:n]
Prefix(s, n) == SubSeq(s, 1, IF Len(s) < n THEN Len(s) ELSE n)

ToArticleTitleWhole(approval) ==
    <<GetStatusEmoji(approval), " ",
      IF Truthy(approval.brand_name) THEN approval.brand_name ELSE approval.drug_name>>
        \o (IF Truthy(approval.dosage_form) THEN <<" [", approval.dosage_form, "]">>
            ELSE <<>>)
        \o (IF approval.indication # <<>> THEN <<" - ">> \o approval.indication ELSE <<>>)

\* the title to_article builds
ToArticleTitle(approval) ==
    <<GetStatusEmoji(approval), " ",
      IF Truthy(approval.brand_name) THEN approval.brand_name ELSE approval.drug_name>>
        \o (IF Truthy(approval.dosage_form) THEN <<" [", approval.dosage_form, "]">>
            ELSE <<>>)
        \o (IF approval.indication # <<>>
            THEN <<" - ">> \o Prefix(approval.indication, IndicationLimit)
            ELSE <<>>)

\* approval.to_article()
ToArticle(approval) ==
    [title  |-> ToArticleTitle(approval),
     url    |-> IF Truthy(approval.url) THEN approval.url ELSE "",
     is_new |-> approval.is_new]

----------------------------------------------------------------------------
(* SpecTitle: one filing is converted to an article *)

\* the statuses of the filings: the default, none, the table's English keys
\* as such, in capitals and inside a longer text, what _decode_status makes of
\* the codes AP ("shou" "nin" "zumi"), TA ("zan" "tei" "shou" "nin"), NA
\* ("hi" "shou" "nin") and WD ("tek" "kai"), and an undecoded code
Statuses ==
    { <<"u", "n", "k", "n", "o", "w", "n">>,
      <<>>,
      <<"a", "p", "p", "r", "o", "v", "e", "d">>,
      <<"A", "p", "p", "r", "o", "v", "e", "d">>,
      <<"n", "o", "t", "_", "a", "p", "p", "r", "o", "v", "e", "d">>,
      <<"t", "e", "n", "t", "a", "t", "i", "v", "e">>,
      <<"f", "i", "l", "e", "d">>,
      <<"i", "n", " ", "r", "e", "v", "i", "e", "w">>,
      <<"p", "e", "n", "d", "i", "n", "g">>,
      <<"w", "i", "t", "h", "d", "r", "a", "w", "n">>,
      <<"shou", "nin", "zumi">>,
      <<"zan", "tei", "shou", "nin">>,
      <<"hi", "shou", "nin">>,
      <<"tek", "kai">>,
      <<"T", "A", "1">> }

\* indications: none, a short one, one of exactly IndicationLimit characters
\* and one that is one character longer
Indications ==
    { <<>>, <<"o", "b">>,
      [i \in 1..IndicationLimit |-> "i"],
      [i \in 1..(IndicationLimit + 1) |-> IF i > IndicationLimit THEN "j" ELSE "i"] }

FullApprovals ==
    [drug_name : {"sema"}, brand_name : {NoneStr, "", "Oz"},
     submission_status : Statuses, indication : Indications,
     dosage_form : {NoneStr, "", "inj"}, url : {NoneStr, "U"}, is_new : BOOLEAN]

TitleInit ==
    \E approval \in FullApprovals :
        /\ fda_approvals = <<approval>>
        /\ articles = <<>>
        /\ snapshot_file = <<>>
        /\ seen_file = <<>>
        /\ mgr = <<>>
        /\ shortage_articles = <<>>
        /\ returned = <<>>
        /\ hash_seed = 1
        /\ now = 1
        /\ pc = "start"
        /\ history = [runs |-> 0]

\* article = approval.to_article()
TitleToArticle ==
    /\ pc = "start"
    /\ articles' = <<ToArticle(fda_approvals[1])>>
    /\ pc' = "converted"
    /\ UNCHANGED <<snapshot_file, seen_file, mgr, shortage_articles, fda_approvals,
                   returned, hash_seed, now, history>>

SpecTitle == TitleInit /\ [][TitleToArticle]_vars

----------------------------------------------------------------------------
(* SpecSearch: FDAApiClient.search_obesity_diabetes_drugs removes repeated
   results, and the snapshot is made of what it returns *)

\* for r in results: key = f"{r.drug_name}_{r.application_number}" ...
RECURSIVE UniqueLoop(_, _, _)
UniqueLoop(results, seen, unique_results) ==
    IF results = <<>> THEN unique_results
    ELSE LET r   == Head(results)
             key == r.drug_name \o "_" \o Format(r.application_number)
         IN  IF key \notin seen
             THEN UniqueLoop(Tail(results), seen \cup {key}, Append(unique_results, r))
             ELSE UniqueLoop(Tail(results), seen, unique_results)

\* unique_results of search_obesity_diabetes_drugs, results being what the
\* searches by indication and by drug name returned, in that order
UniqueResults(results) == UniqueLoop(results, {}, <<>>)

\* what the searches return: Drugs@FDA results (with an application number)
\* and label results (without one) of two drugs
SearchResults ==
    Filings \cup {DrugApproval("sema", "We", NoneStr), DrugApproval("tirz", "Mo", "N2")}

SearchInit ==
    \E results \in SeqsUpTo(SearchResults, MaxFilings) :
        /\ fda_approvals = results
        /\ articles = <<>>
        /\ snapshot_file = <<>>
        /\ seen_file = <<>>
        /\ mgr = <<>>
        /\ shortage_articles = <<>>
        /\ returned = <<>>
        /\ hash_seed = 1
        /\ now = 1
        /\ pc = "start"
        /\ history = [results |-> results]

\* fda_approvals = fda_client.search_obesity_diabetes_drugs()
SearchUnique ==
    /\ pc = "start"
    /\ fda_approvals' = UniqueResults(fda_approvals)
    /\ pc' = "searched"
    /\ UNCHANGED <<snapshot_file, seen_file, mgr, articles, shortage_articles,
                   returned, hash_seed, now, history>>

\* create_current_snapshot(all_articles, shortage_articles, fda_approvals)
SearchSnapshot ==
    /\ pc = "searched"
    /\ returned' = <<CreateCurrentSnapshot(articles, shortage_articles, fda_approvals, now)>>
    /\ now' = now + 1
    /\ pc' = "snapshot"
    /\ UNCHANGED <<snapshot_file, seen_file, mgr, articles, shortage_articles,
                   fda_approvals, hash_seed, history>>

SearchNext == SearchUnique \/ SearchSnapshot

SpecSearch == SearchInit /\ [][SearchNext]_vars

----------------------------------------------------------------------------
(* DrugShortageMonitor._fetch_shortage_list and its cache.  The clock counts
   seconds; a shortage list is the sequence of the entries of shortage_data. *)

\* the age below which the cached list is reused
CacheSeconds == 300

SecondsPerDay == 86400

\* (later - earlier).seconds: the seconds field of the timedelta, which leaves
\* out the whole days
TimedeltaSeconds(later, earlier) == (later - earlier) % SecondsPerDay

\* DrugShortageMonitor(config, matcher); an attribute that is None is <<>>, one
\* that has the value v is <<v>>
NewShortageMonitor == [shortage_cache |-> <<>>, cache_time |-> <<>>]

\* one entry of shortage_data
ShortageEntry(key, name, status_lower, url) ==
    [key |-> key, name |-> name, status |-> status_lower, url |-> url,
     in_shortage |-> Contains(status_lower, <<"currently in shortage">>)]

\* what a request for the database page leads to: no page, an exception while
\* the page is read, or the entries of its table
NoHtml == [kind |-> "no_html", data |-> <<>>]
ParseRaises == [kind |-> "raises", data |-> <<>>]
Page(data) == [kind |-> "page", data |-> data]

\* the cached list is used
CacheFresh(monitor, clock) ==
    /\ monitor.shortage_cache # <<>>
    /\ monitor.shortage_cache[1] # <<>>
    /\ monitor.cache_time # <<>>
    /\ TimedeltaSeconds(clock, monitor.cache_time[1]) < CacheSeconds

\* monitor._fetch_shortage_list() at time clock, site being what a request
\* leads to: the list returned and the monitor afterwards
FetchShortageList(monitor, clock, site) ==
    IF CacheFresh(monitor, clock)
    THEN [list |-> monitor.shortage_cache[1], monitor |-> monitor, fetched |-> FALSE]
    ELSE IF site.kind = "page"
    THEN [list |-> site.data,
          monitor |-> [shortage_cache |-> Some(site.data), cache_time |-> Some(clock)],
          fetched |-> TRUE]
    ELSE [list |-> <<>>, monitor |-> monitor, fetched |-> TRUE]

----------------------------------------------------------------------------
(* SpecCache: one monitor is asked for the shortage list, time passes, it is
   asked again *)

Sites ==
    {NoHtml, ParseRaises, Page(<<>>),
     Page(<<ShortageEntry(<<"o", "z">>, <<"O", "z">>, <<"currently in shortage">>, "U")>>),
     Page(<<ShortageEntry(<<"o", "z">>, <<"O", "z">>, <<"resolved">>, "U")>>)}

\* the seconds that pass between two calls: within the cache age, at it, just
\* under a day, a day, and a day and a little
Delays == {0, CacheSeconds - 1, CacheSeconds, CacheSeconds + 1, SecondsPerDay - 1,
           SecondsPerDay, SecondsPerDay + 100, SecondsPerDay + CacheSeconds}

CacheInit ==
    /\ mgr = <<[monitor |-> NewShortageMonitor]>>
    /\ now = 0
    /\ pc = "idle"
    /\ returned = <<>>
    /\ history = [runs |-> 0, fetched |-> FALSE, cached |-> FALSE, age |-> 0]
    /\ snapshot_file = <<>>
    /\ seen_file = <<>>
    /\ articles = <<>>
    /\ shortage_articles = <<>>
    /\ fda_approvals = <<>>
    /\ hash_seed = 1

\* shortage_list = self._fetch_shortage_list()
CacheFetch ==
    /\ pc = "idle"
    /\ history.runs < MaxRuns
    /\ \E site \in Sites :
        LET monitor == mgr[1].monitor
            r       == FetchShortageList(monitor, now, site)
            cached  == monitor.shortage_cache # <<>> /\ monitor.shortage_cache[1] # <<>>
        IN  /\ mgr' = [mgr EXCEPT ![1].monitor = r.monitor]
            /\ returned' = <<r.list>>
            /\ history' = [runs |-> history.runs + 1, fetched |-> r.fetched,
                           cached |-> cached,
                           age |-> IF cached THEN now - monitor.cache_time[1] ELSE 0]
    /\ pc' = "called"
    /\ UNCHANGED <<snapshot_file, seen_file, articles, shortage_articles, fda_approvals,
                   hash_seed, now>>

\* time passes until the next call
CacheWait ==
    /\ pc = "called"
    /\ \E d \in Delays : now' = now + d
    /\ pc' = "idle"
    /\ UNCHANGED <<snapshot_file, seen_file, mgr, articles, shortage_articles,
                   fda_approvals, returned, hash_seed, history>>

CacheNext == CacheFetch \/ CacheWait

SpecCache == CacheInit /\ [][CacheNext]_vars

----------------------------------------------------------------------------
(* DrugShortageMonitor.check_shortages: from the shortage list and the
   monitored names to the shortage items *)

Letters == {"o", "z", "g", "a", "t", "O", "Z", "G", "A", "T"}

\* c.upper() for the letters of the model's alphabet
UpperChar(c) ==
    IF c = "o" THEN "O" ELSE IF c = "z" THEN "Z" ELSE IF c = "g" THEN "G"
    ELSE IF c = "a" THEN "A" ELSE IF c = "t" THEN "T" ELSE c

\* s.title(): a letter that follows no letter in upper case, every other
\* letter in lower case
TitleCase(s) ==
    [i \in DOMAIN s |->
        IF i = 1 \/ s[IF i = 1 THEN 1 ELSE i - 1] \notin Letters
        THEN UpperChar(s[i]) ELSE LowerChar(s[i])]

\* drug_name.lower().replace(' ', '').replace('-', '')
NormalizedKey(name) == Replace(Replace(Lower(name), <<" ">>, <<>>), <<"-">>, <<>>)

\* the entry _fetch_shortage_list makes of a table row with the drug name
\* name and the status text status
ListedEntry(name, status) == ShortageEntry(NormalizedKey(name), name, status, "U")

\* all_drugs_to_check
DrugsToCheck(shortage_config) ==
    LET drugs  == Get(shortage_config, "drugs_to_monitor", <<>>)
        brands == Get(shortage_config, "brands_to_monitor", <<>>)
    IN  [i \in DOMAIN drugs |->
            [search_term |-> drugs[i], display_name |-> TitleCase(drugs[i])]]
        \o [i \in DOMAIN brands |->
               [search_term |-> brands[i], display_name |-> brands[i]]]

\* for key, data in shortage_list.items(): ... found_shortage = data; break
\* (<<>> when no entry is found)
RECURSIVE FindShortage(_, _)
FindShortage(shortage_list, search_term) ==
    IF shortage_list = <<>> THEN <<>>
    ELSE LET data == Head(shortage_list)
         IN  IF Contains(data.key, search_term) \/ Contains(Lower(data.name), search_term)
             THEN <<data>>
             ELSE FindShortage(Tail(shortage_list), search_term)

\* the items of one monitored name
CheckOne(shortage_list, drug_info, show_zero) ==
    LET found == FindShortage(shortage_list, Lower(drug_info.search_term))
    IN  IF found # <<>> /\ found[1].in_shortage
        THEN <<ShortageArticle(TitleShortage(found[1].name), found[1].url)>>
        ELSE IF found # <<>>
        THEN IF show_zero
             THEN <<ShortageArticle(TitleResolved(found[1].name), found[1].url)>>
             ELSE <<>>
        ELSE IF show_zero
             THEN <<ShortageArticle(TitleNotListed(drug_info.display_name), ShortageDbUrl)>>
             ELSE <<>>

RECURSIVE CheckLoop(_, _, _)
CheckLoop(shortage_list, drugs, show_zero) ==
    IF drugs = <<>> THEN <<>>
    ELSE CheckOne(shortage_list, Head(drugs), show_zero)
             \o CheckLoop(shortage_list, Tail(drugs), show_zero)

\* monitor.check_shortages(), shortage_list being what _fetch_shortage_list
\* returns
CheckShortages(shortage_config, shortage_list) ==
    IF ~Get(shortage_config, "enabled", FALSE) THEN <<>>
    ELSE IF shortage_list = <<>>
    THEN <<ShortageArticle(TitleNoAccess, ShortageDbUrl)>>
    ELSE CheckLoop(shortage_list, DrugsToCheck(shortage_config),
                   Get(shortage_config, "show_zero_results", TRUE))

----------------------------------------------------------------------------
(* SpecMonitor: runs of run_survey(), each with a manager of its own, in
   which only the shortage monitor finds something *)

\* what the database page lists during a run: nothing that can be read, another
\* drug only, the monitored drug under its bare name or with its dosage form,
\* in shortage or resolved
MonitorSites ==
    {NoHtml,
     Page(<<ListedEntry(<<"A", "t">>, <<"currently in shortage">>)>>),
     Page(<<ListedEntry(<<"A", "t">>, <<"currently in shortage">>),
            ListedEntry(NameOz, <<"currently in shortage">>)>>),
     Page(<<ListedEntry(NameOz, <<"resolved">>)>>),
     Page(<<ListedEntry(<<"O", "z", " ", "T", "a">>, <<"currently in shortage">>)>>),
     Page(<<ListedEntry(<<"O", "z", " ", "T", "a">>, <<"resolved">>)>>)}

\* shortage_monitor sections of the configuration: the drug monitored by its
\* generic name, by its brand name, and without the items for normal supply
MonitorConfigs ==
    {[enabled |-> TRUE, drugs_to_monitor |-> <<NameOzLower>>],
     [enabled |-> TRUE, brands_to_monitor |-> <<NameOz>>],
     [enabled |-> TRUE, drugs_to_monitor |-> <<NameOzLower>>,
      show_zero_results |-> FALSE]}

MonitorInit ==
    \E shortage_config \in MonitorConfigs :
        /\ snapshot_file = <<>>
        /\ seen_file = <<>>
        /\ mgr = <<>>
        /\ articles = <<>>
        /\ shortage_articles = <<>>
        /\ fda_approvals = <<>>
        /\ returned = <<>>
        /\ hash_seed = <<>>
        /\ now = 1
        /\ pc = "start"
        /\ history = [runs |-> 0, config |-> shortage_config,
                      used_prev |-> NoSnapshot, prev_items |-> <<>>]

\* run_survey(): a new manager loads the snapshot, the monitor reads the page,
\* the diff is computed and the snapshot saved
MonitorRun ==
    /\ history.runs < MaxRuns
    /\ \E site \in MonitorSites :
        LET previous_snapshot == LoadPreviousSnapshot(snapshot_file)
            shortage_list == FetchShortageList(NewShortageMonitor, now, site).list
            shorts == CheckShortages(history.config, shortage_list)
        IN  \E order \in VisitOrders(previous_snapshot, shorts) :
              LET r    == GetDiff(previous_snapshot, <<>>, shorts, <<>>, order)
                  snap == CreateCurrentSnapshot(<<>>, shorts, <<>>, now)
              IN  /\ snapshot_file' \in WriteSnapshotFile(snapshot_file, snap)
                  /\ shortage_articles' = shorts
                  /\ returned' = <<r.diff>>
                  /\ hash_seed' = order
                  /\ history' = [history EXCEPT !.runs = @ + 1,
                                                !.used_prev = previous_snapshot,
                                                !.prev_items = shortage_articles]
    /\ now' = now + 1
    /\ UNCHANGED <<seen_file, mgr, articles, fda_approvals, pc>>

SpecMonitor == MonitorInit /\ [][MonitorRun]_vars

----------------------------------------------------------------------------
(* Properties of get_diff and of the snapshot, checked under SpecDiff *)

\* the DiffManager get_diff was called on, and what the last call returned
Prev == mgr[1].dm.previous_snapshot
HasPrev == Prev # NoSnapshot
Called == Len(returned) >= 1
LastDiff == returned[Len(returned)]

\* C1: with a previous snapshot, after get_diff an article is flagged is_new
\* exactly when its URL is not in previous_snapshot.article_urls, and
\* new_article_count is the number of such articles.
C1_NewArticles ==
    (HasPrev /\ Called) =>
        /\ \A i \in DOMAIN articles :
              articles[i].is_new <=> (articles[i].url \notin Prev[1].article_urls)
        /\ LastDiff.new_article_count =
              Cardinality({i \in DOMAIN articles : articles[i].url \notin Prev[1].article_urls})

C1_Witness ==
    /\ HasPrev /\ Called
    /\ \E i, j \in DOMAIN articles : articles[i].is_new /\ ~articles[j].is_new
    /\ LastDiff.new_article_count = 1

\* C2: without a previous snapshot has_previous is false, every article and
\* every filing ends flagged is_new, shortage_changes is empty and both
\* deltas are 0, whatever the shortage items are.
C2_FirstRun ==
    (~HasPrev /\ Called) =>
        /\ LastDiff.has_previous = FALSE
        /\ \A i \in DOMAIN articles : articles[i].is_new
        /\ \A i \in DOMAIN fda_approvals : fda_approvals[i].is_new
        /\ LastDiff.shortage_changes = <<>>
        /\ LastDiff.summary.articles_delta = 0
        /\ LastDiff.summary.fda_delta = 0

C2_Witness ==
    /\ ~HasPrev /\ Called
    /\ Len(articles) = 2 /\ Len(fda_approvals) = 2
    /\ \E i \in DOMAIN shortage_articles :
          Contains(shortage_articles[i].title, MarkerShortage)

\* the identity key of a filing as the specification words it
IdentityKey(f) ==
    IF f.application_number \notin {NoneStr, ""} THEN f.application_number
    ELSE f.drug_name \o "_" \o (IF f.brand_name = NoneStr THEN "None" ELSE f.brand_name)

SameFiling(f, g) ==
    /\ f.drug_name = g.drug_name
    /\ f.brand_name = g.brand_name
    /\ f.application_number = g.application_number

\* C3: with a previous snapshot a filing is flagged is_new, and listed in
\* new_fda_approvals, exactly when its identity key is not in
\* previous_snapshot.fda_approval_ids; the snapshot stores the same keys, so a
\* filing the previous run also had is not new.
C3_NewFilings ==
    /\ (HasPrev /\ Called) =>
          /\ \A i \in DOMAIN fda_approvals :
                fda_approvals[i].is_new <=>
                    (IdentityKey(fda_approvals[i]) \notin Prev[1].fda_approval_ids)
          /\ LastDiff.new_fda_approvals =
                SelectSeq(fda_approvals, LAMBDA f : f.is_new)
          /\ \A i \in DOMAIN fda_approvals :
                (\E j \in DOMAIN history.prev_fda_approvals :
                    SameFiling(fda_approvals[i], history.prev_fda_approvals[j]))
                => ~fda_approvals[i].is_new
    /\ mgr[1].dm.current_snapshot # NoSnapshot =>
          mgr[1].dm.current_snapshot[1].fda_approval_ids =
              {IdentityKey(fda_approvals[i]) : i \in DOMAIN fda_approvals}

C3_Witness ==
    /\ HasPrev /\ Called
    /\ \E i, j \in DOMAIN fda_approvals :
          /\ fda_approvals[i].is_new
          /\ ~fda_approvals[j].is_new
          /\ fda_approvals[j].application_number = NoneStr
          /\ \E k \in DOMAIN history.prev_fda_approvals :
                SameFiling(fda_approvals[j], history.prev_fda_approvals[k])

\* C4: with a previous snapshot removed_article_count is the number of URLs of
\* previous_snapshot.article_urls that no current article has.
C4_RemovedCount ==
    (HasPrev /\ Called) =>
        LastDiff.removed_article_count =
            Cardinality({u \in Prev[1].article_urls :
                            \A i \in DOMAIN articles : articles[i].url # u})

\* previous {A, B}, current B, C: one removed, one new
C4_Witness ==
    /\ HasPrev /\ Called
    /\ Prev[1].article_urls = {"A", "B"}
    /\ [i \in DOMAIN articles |-> articles[i].url] = <<"B", "C">>
    /\ LastDiff.removed_article_count = 1
    /\ LastDiff.new_article_count = 1

\* the events of shortage_changes about one drug
EventsOf(drug) == SelectSeq(LastDiff.shortage_changes, LAMBDA e : e.drug = drug)

IsEvent(e, drug, change, severity) ==
    /\ e.drug = drug
    /\ e.change = change
    /\ e.severity = severity
    /\ Contains(e.message, drug)

\* C5: for every drug of the two maps, (normal, shortage) and (unknown,
\* shortage) yield one new_shortage event of severity high, (shortage, normal)
\* yields one resolved event of severity info, every other pair none; each
\* message contains the drug key and every event is about a drug of the maps.
C5_TransitionTable ==
    (HasPrev /\ Called) =>
        LET prev_shortage == Prev[1].shortage_status
            current_shortage == CurrentShortage(shortage_articles)
            all_drugs == (DOMAIN prev_shortage) \cup (DOMAIN current_shortage)
        IN  /\ \A i \in DOMAIN LastDiff.shortage_changes :
                  LastDiff.shortage_changes[i].drug \in all_drugs
            /\ \A drug \in all_drugs :
                  LET p == Get(prev_shortage, drug, "unknown")
                      c == Get(current_shortage, drug, "unknown")
                      evs == EventsOf(drug)
                  IN  IF (p = "normal" \/ p = "unknown") /\ c = "shortage"
                      THEN Len(evs) = 1 /\ IsEvent(evs[1], drug, "new_shortage", "high")
                      ELSE IF p = "shortage" /\ c = "normal"
                      THEN Len(evs) = 1 /\ IsEvent(evs[1], drug, "resolved", "info")
                      ELSE Len(evs) = 0

C5_Witness ==
    /\ HasPrev /\ Called
    /\ Len(LastDiff.shortage_changes) = 2
    /\ \E i, j \in DOMAIN LastDiff.shortage_changes :
          /\ LastDiff.shortage_changes[i].change = "resolved"
          /\ LastDiff.shortage_changes[j].change = "new_shortage"
          /\ Get(Prev[1].shortage_status, LastDiff.shortage_changes[j].drug, "unknown")
                = "unknown"

\* a drug key in normal form: case-folded, stripped, without marker or suffix
Normalized(k) ==
    /\ k = Lower(k)
    /\ k = Strip(k)
    /\ ~Contains(k, MarkerShortage)
    /\ ~Contains(k, MarkerNormal)
    /\ ~Contains(k, MarkerResolved)
    /\ ~Contains(k, NotListed)

\* C6: the shortage status map, in get_diff and in the snapshot, is keyed by
\* the normalized drug name (case-folded, stripped, marker and suffix
\* removed), so titles that differ in letter case or marker share a key.
C6_NormalizedKeys ==
    /\ Called => \A k \in DOMAIN CurrentShortage(shortage_articles) : Normalized(k)
    /\ mgr[1].dm.current_snapshot # NoSnapshot =>
          \A k \in DOMAIN mgr[1].dm.current_snapshot[1].shortage_status : Normalized(k)

\* C7: a second get_diff on the same DiffManager with the same arguments
\* returns a diff equal to the first, although the first call has set is_new.
C7_Idempotent ==
    Len(returned) = 2 => returned[1] = returned[2]

C7_Witness ==
    /\ Len(returned) = 2
    /\ HasPrev
    /\ returned[2].new_article_count >= 1
    /\ Len(returned[2].shortage_changes) >= 1
    /\ Len(returned[2].new_fda_approvals) >= 1
    /\ \E i \in DOMAIN articles : ~articles[i].is_new

----------------------------------------------------------------------------
(* Properties of the snapshot store across runs, checked under Spec *)

\* C8: a manager built after a successful save has a previous_snapshot with
\* the timestamp, URL set, status map, filing-key set and three counts of the
\* snapshot that save wrote.
C8_RoundTrip ==
    \A m \in DOMAIN mgr :
        history.loaded[m] # NoSnapshot =>
            /\ mgr[m].dm.previous_snapshot # NoSnapshot
            /\ LET saved == history.loaded[m][1]
                   loaded == mgr[m].dm.previous_snapshot[1]
               IN  /\ loaded.timestamp = saved.timestamp
                   /\ loaded.article_urls = saved.article_urls
                   /\ loaded.shortage_status = saved.shortage_status
                   /\ loaded.fda_approval_ids = saved.fda_approval_ids
                   /\ loaded.article_count = saved.article_count
                   /\ loaded.fda_count = saved.fda_count
                   /\ loaded.shortage_count = saved.shortage_count

C8_Witness ==
    \E m \in DOMAIN mgr :
        /\ history.loaded[m] # NoSnapshot
        /\ Cardinality(mgr[m].dm.previous_snapshot[1].article_urls) = 2
        /\ Cardinality(mgr[m].dm.previous_snapshot[1].fda_approval_ids) = 2
        /\ DOMAIN mgr[m].dm.previous_snapshot[1].shortage_status # {}
        /\ snapshot_file[1].article_urls = <<"B", "A">>

\* C9: after any sequence of successful saves a load yields the last saved
\* snapshot, and no URL, filing key or shortage entry that only an earlier
\* snapshot held is in it.
C9_SingleSlot ==
    history.last_saved # NoSnapshot =>
        LET loaded == LoadPreviousSnapshot(snapshot_file)
            last == history.last_saved[1]
        IN  /\ loaded = history.last_saved
            /\ \A u \in history.superseded.urls \ last.article_urls :
                  u \notin loaded[1].article_urls
            /\ \A id \in history.superseded.ids \ last.fda_approval_ids :
                  id \notin loaded[1].fda_approval_ids
            /\ \A e \in history.superseded.entries \ Entries(last.shortage_status) :
                  e \notin Entries(loaded[1].shortage_status)

C9_Witness ==
    /\ history.runs = 2
    /\ history.superseded.urls \ history.last_saved[1].article_urls # {}
    /\ history.superseded.ids \ history.last_saved[1].fda_approval_ids # {}
    /\ history.superseded.entries \ Entries(history.last_saved[1].shortage_status) # {}

\* C10: every run diffs against the snapshot the run before it saved, also
\* when one manager instance runs several times.
C10_PreviousIsLastSaved ==
    history.runs >= 1 => history.used_prev = history.saved_before

----------------------------------------------------------------------------
(* Properties of the collection loop and the seen set, checked under Spec *)

\* a step is a run_survey call
RunStep == history'.runs = history.runs + 1

\* the URLs of a list of articles, in order
UrlsOf(list) == [i \in DOMAIN list |-> list[i].url]

\* what the adapters of the fetched sources returned in a run, in source order
RECURSIVE AdapterOutput(_, _)
AdapterOutput(srcs, outcome) ==
    IF srcs = <<>> THEN <<>>
    ELSE LET source == Head(srcs)
         IN  (IF source.subcategory = "drug_shortages" \/ outcome[source.name].raises
              THEN <<>> ELSE outcome[source.name].articles)
             \o AdapterOutput(Tail(srcs), outcome)

\* C13: with include_seen = false run_survey returns the adapter output less
\* the items whose URL was in the seen set when the run began, with
\* include_seen = true all of it; either way the seen set becomes the former
\* seen set united with the URLs of the items returned.
C13_SeenFilter ==
    [][RunStep =>
        LET m == history'.ran
            seen_before == mgr[m].seen_urls
            output == AdapterOutput(EnabledSources, history'.input.outcome)
            surviving == IF history'.input.include_seen THEN output
                         ELSE SelectSeq(output, LAMBDA a : a.url \notin seen_before)
        IN  /\ UrlsOf(articles') = UrlsOf(surviving)
            /\ mgr'[m].seen_urls = seen_before \cup Range(UrlsOf(surviving))]_vars

\* C14: no URL ever leaves the persisted seen set, and after a run the
\* persisted seen set holds the URL of every article the run returned.
C14_SeenMonotonic ==
    [][/\ LoadSeenUrls(seen_file) \subseteq LoadSeenUrls(seen_file')
       /\ RunStep => Range(UrlsOf(articles')) \subseteq LoadSeenUrls(seen_file')]_vars

\* the fetched sources whose adapter raised in the last run
Failed(outcome) ==
    {i \in DOMAIN EnabledSources :
        /\ EnabledSources[i].subcategory # "drug_shortages"
        /\ outcome[EnabledSources[i].name].raises}

\* C15: when the adapter of a source raises, the run returns what the other
\* sources yield (all of it with include_seen, else what was not seen before),
\* the seen set gains exactly the URLs returned, and the run diffs and saves
\* its snapshot.
C15_PartialFailure ==
    [][RunStep /\ Failed(history'.input.outcome) # {} =>
        LET m == history'.ran
            others == AdapterOutput(EnabledSources, history'.input.outcome)
            fresh == Range(UrlsOf(others)) \ mgr[m].seen_urls
        IN  /\ IF history'.input.include_seen
               THEN UrlsOf(articles') = UrlsOf(others)
               ELSE Range(UrlsOf(articles')) = fresh
            /\ mgr'[m].seen_urls = mgr[m].seen_urls \cup Range(UrlsOf(articles'))
            /\ returned'[1].new_article_count <= Len(articles')
            /\ mgr'[m].dm.current_snapshot # NoSnapshot
            /\ mgr'[m].dm.current_snapshot[1].article_urls = Range(UrlsOf(articles'))
            /\ LoadPreviousSnapshot(snapshot_file') = mgr'[m].dm.current_snapshot]_vars

\* a source between two others raised, and the run returned the items of both
C15_Witness ==
    /\ history.runs >= 1
    /\ Failed(history.input.outcome) = {2}
    /\ UrlsOf(articles) = <<"A", "B">>
    /\ LoadPreviousSnapshot(snapshot_file) = mgr[history.ran].dm.current_snapshot

\* the filings of a list without their is_new flags
Unflagged(list) == [i \in DOMAIN list |-> [list[i] EXCEPT !.is_new = FALSE]]

\* the diff reports no change at all
NoChange(diff) ==
    /\ diff.new_article_count = 0
    /\ diff.new_articles = <<>>
    /\ diff.removed_article_count = 0
    /\ diff.shortage_changes = <<>>
    /\ diff.new_fda_approvals = <<>>
    /\ diff.summary.articles_delta = 0
    /\ diff.summary.fda_delta = 0

\* C16: a run with include_seen = true whose manager loaded the snapshot of
\* the run before it, and whose adapters, shortage monitor and filing client
\* return what they returned in that run (also made with include_seen = true),
\* gets a diff that reports no change.
C16_IdempotentRerun ==
    [][/\ RunStep
       /\ history.runs >= 1
       /\ history.input.io = "saved"
       /\ mgr[history'.ran].dm.previous_snapshot = history.last_saved
       /\ history.input.include_seen /\ history'.input.include_seen
       /\ history'.input.outcome = history.input.outcome
       /\ shortage_articles' = shortage_articles
       /\ Unflagged(fda_approvals') = Unflagged(fda_approvals)
       => /\ returned'[1].has_previous
          /\ NoChange(returned'[1])]_vars

\* the second of two such runs has returned two articles, a shortage item and
\* two filings, none of them new
C16_Witness ==
    /\ history.runs = 2
    /\ history.input.include_seen
    /\ history.used_prev = history.saved_before
    /\ history.used_prev # NoSnapshot
    /\ history.used_prev[1].article_urls = {"A", "B"}
    /\ history.used_prev[1].article_count = 2
    /\ Len(articles) = 2 /\ Len(fda_approvals) = 2 /\ Len(shortage_articles) = 1
    /\ \A i \in DOMAIN fda_approvals : ~fda_approvals[i].is_new
    /\ NoChange(returned[1])

----------------------------------------------------------------------------
(* Properties of runs over damaged files and failing saves, checked under
   SpecFaults *)

\* the file does not hold a snapshot document
Corrupt(file) == file # <<>> /\ (LoadRaises(file) \/ DOMAIN file[1] # SnapshotKeys)

\* C11: a run of a manager that was built on a missing or corrupt snapshot
\* file diffs against no previous snapshot, reports has_previous = false, and
\* its save leaves the file holding the run's own snapshot.
C11_CorruptLoadsNone ==
    [][RunStep =>
        LET m == history'.ran
        IN  (history.built_on[m] = <<>> \/ Corrupt(history.built_on[m])) =>
               /\ mgr[m].dm.previous_snapshot = NoSnapshot
               /\ ~returned'[1].has_previous
               /\ history'.input.io = "saved" =>
                      LoadPreviousSnapshot(snapshot_file') = mgr'[m].dm.current_snapshot]_vars

\* C12: a run whose snapshot save fails still completes and leaves
\* last_snapshot.json as it was, so that the next load yields what a load
\* before the run would have yielded.
C12_FailedSaveKeepsFile ==
    [][RunStep /\ history'.input.io # "saved" =>
        LoadPreviousSnapshot(snapshot_file') = LoadPreviousSnapshot(snapshot_file)]_vars

----------------------------------------------------------------------------
(* Properties of the relevance matcher, checked under SpecMatcher *)

\* the keyword strings the configuration lists, as written there
ListedIn(entries, field) ==
    UNION {Range(Get(entries[i], field, <<>>)) : i \in DOMAIN entries}

ConfiguredKeywords(config) ==
    LET terms == Get(config, "search_terms", EmptyDict)
    IN  ListedIn(Get(terms, "indications", <<>>), "aliases")
            \cup ListedIn(Get(terms, "drug_classes", <<>>), "aliases")
            \cup ListedIn(Get(terms, "drug_names", <<>>), "aliases")
            \cup ListedIn(Get(terms, "drug_names", <<>>), "brands")
            \cup ListedIn(Get(terms, "companies", <<>>), "aliases")
            \cup ListedIn(<<Get(terms, "regulatory_terms", EmptyDict)>>, "aliases")

\* keyword occurs in text as a substring, letter case ignored
OccursIn(keyword, text) == Contains(Lower(text), Lower(keyword))

Calculated == {i \in DOMAIN returned : returned[i].call = "calculate_relevance"}

\* C18: the score calculate_relevance returns for a text is 0 exactly when no
\* configured keyword occurs in the text as a substring, letter case ignored,
\* and it is never negative.
C18_ZeroIffNoKeyword ==
    \A i \in Calculated :
        LET r == returned[i]
        IN  /\ r.result.score = 0 <=>
                   ~\E k \in ConfiguredKeywords(history.config) : OccursIn(k, r.text)
            /\ r.result.score >= 0

\* the (category, lowercase keyword) pairs of the matcher whose keyword occurs
\* in text
MatchedPairs(matcher, text) ==
    {<<c, k>> \in UNION {{Categories[n]} \X Range(matcher.patterns[Categories[n]])
                            : n \in DOMAIN Categories} :
        OccursIn(k, text)}

RECURSIVE WeightSum(_, _)
WeightSum(pairs, weights) ==
    IF pairs = {} THEN 0
    ELSE LET p == CHOOSE q \in pairs : TRUE
         IN  Get(weights, p[1], 1) + WeightSum(pairs \ {p}, weights)

\* the keywords of the matcher in the order calculate_relevance tries them
RECURSIVE TriedOrder(_, _)
TriedOrder(categories, matcher) ==
    IF categories = <<>> THEN <<>>
    ELSE matcher.patterns[Head(categories)] \o TriedOrder(Tail(categories), matcher)

\* the first occurrences of the elements of list
RECURSIVE FirstOccurrences(_)
FirstOccurrences(list) ==
    IF list = <<>> THEN <<>>
    ELSE LET front == FirstOccurrences(SubSeq(list, 1, Len(list) - 1))
             last  == list[Len(list)]
         IN  IF last \in Range(front) THEN front ELSE Append(front, last)

\* C19: the score is the sum, over the distinct keywords of each category that
\* occur in the text, of the category's weight, each counted once however
\* often the configuration lists it; matched_terms holds exactly the distinct
\* lowercase keywords that occur, in first-match order.
C19_DistinctWeightedCount ==
    \A i \in Calculated :
        LET r       == returned[i]
            matcher == mgr[1].matcher
        IN  /\ r.result.score = WeightSum(MatchedPairs(matcher, r.text), matcher.weights)
            /\ r.result.matched_terms =
                   FirstOccurrences(SelectSeq(TriedOrder(Categories, matcher),
                                              LAMBDA k : OccursIn(k, r.text)))

Judged == {i \in DOMAIN returned : returned[i].call = "is_relevant"}

----------------------------------------------------------------------------
(* Properties of the adapters, checked under SpecAdapters *)

\* C17: no URL in the seen set, in seen_urls.json or among the article URLs
\* of the saved snapshot is the empty string.
C17_NoEmptyUrl ==
    /\ \A m \in DOMAIN mgr : "" \notin mgr[m].seen_urls
    /\ "" \notin LoadSeenUrls(seen_file)
    /\ LoadPreviousSnapshot(snapshot_file) # NoSnapshot =>
           "" \notin LoadPreviousSnapshot(snapshot_file)[1].article_urls

----------------------------------------------------------------------------
(* Properties of to_article, checked under SpecTitle *)

\* the entries of the status table whose key occurs in the lower-cased status
MatchingEntries(approval) ==
    {n \in DOMAIN StatusMap : Contains(Lower(approval.submission_status), StatusMap[n].key)}

\* the marker of the first matching entry, the generic marker when none matches
FirstMatchMarker(approval) ==
    IF MatchingEntries(approval) = {} THEN GenericEmoji
    ELSE StatusMap[CHOOSE n \in MatchingEntries(approval) :
                       \A k \in MatchingEntries(approval) : n <= k].emoji

\* C21: the title of the article made from a filing is the marker of the
\* first status-table entry that matches the status (the generic marker when
\* none does), the brand name or else the generic name, " [dosage_form]" when
\* there is a dosage form, and " - " with at most the first 50 characters of
\* the indication when there is an indication.
C21_TitleConstruction ==
    pc = "converted" =>
        LET approval == fda_approvals[1]
            title    == articles[1].title
            named    == IF Truthy(approval.brand_name) THEN approval.brand_name
                        ELSE approval.drug_name
            tagged   == Truthy(approval.dosage_form)
            rest     == SubSeq(title, IF tagged THEN 7 ELSE 4, Len(title))
        IN  /\ title[1] = FirstMatchMarker(approval)
            /\ title[2] = " " /\ title[3] = named
            /\ tagged => SubSeq(title, 4, 6) = <<" [", approval.dosage_form, "]">>
            /\ approval.indication = <<>> => rest = <<>>
            /\ approval.indication # <<>> =>
                   /\ rest[1] = " - "
                   /\ Len(rest) - 1 <= 50
                   /\ Len(rest) - 1 = (IF Len(approval.indication) < 50
                                       THEN Len(approval.indication) ELSE 50)
                   /\ \A i \in 1..(Len(rest) - 1) : rest[i + 1] = approval.indication[i]

\* a filing with a brand name, a dosage form and an indication longer than 50
\* characters, whose status matches two table entries, has been converted
C21_Witness ==
    /\ pc = "converted"
    /\ Truthy(fda_approvals[1].brand_name)
    /\ Truthy(fda_approvals[1].dosage_form)
    /\ Len(fda_approvals[1].indication) > 50
    /\ Cardinality(MatchingEntries(fda_approvals[1])) > 1
    /\ Len(articles[1].title) = 57

\* C29: when the status is a key of the status table, the marker in the title
\* is that key's marker.
C29_OwnMarker ==
    pc = "converted" =>
        \A n \in DOMAIN StatusMap :
            StatusMap[n].key = fda_approvals[1].submission_status =>
                articles[1].title[1] = StatusMap[n].emoji

----------------------------------------------------------------------------
(* Properties of the filing search, checked under SpecSearch *)

\* C28: the filings the search returns have pairwise different identity keys,
\* every result it dropped has the identity key of a filing it kept, and the
\* snapshot's fda_count is the size of its set of filing keys.
C28_DedupAgreesWithKey ==
    /\ pc # "start" =>
           /\ \A i \in DOMAIN fda_approvals, j \in DOMAIN fda_approvals :
                  i # j => SnapshotApprovalId(fda_approvals[i]) # SnapshotApprovalId(fda_approvals[j])
           /\ \A n \in DOMAIN history.results :
                  \E i \in DOMAIN fda_approvals :
                      SnapshotApprovalId(fda_approvals[i]) = SnapshotApprovalId(history.results[n])
    /\ pc = "snapshot" =>
           returned[1].fda_count = Cardinality(returned[1].fda_approval_ids)

----------------------------------------------------------------------------
(* Properties of the shortage list cache, checked under SpecCache *)

\* C22: a call made while a list is cached requests the page again exactly
\* when the cached list was fetched 300 seconds or more before the call.
C22_CacheExpiry ==
    (pc = "called" /\ history.cached) => (history.fetched <=> history.age >= 300)

----------------------------------------------------------------------------
(* Further properties of run_survey, checked under Spec *)

----------------------------------------------------------------------------
(* Further properties of run_survey, checked under SpecAdapters *)

\* C24: the articles a run with include_seen = false returns have pairwise
\* different URLs.
C24_NoDuplicateUrls ==
    (history.runs >= 1 /\ ~history.input.include_seen) =>
        \A i \in DOMAIN articles, j \in DOMAIN articles :
            i # j => articles[i].url # articles[j].url

----------------------------------------------------------------------------
(* Properties of the two state files together, checked under SpecAborts *)

\* C25: every article URL of the snapshot in last_snapshot.json is in the
\* set that seen_urls.json holds.
C25_SnapshotWithinSeen ==
    LoadPreviousSnapshot(snapshot_file) # NoSnapshot =>
        LoadPreviousSnapshot(snapshot_file)[1].article_urls \subseteq LoadSeenUrls(seen_file)

----------------------------------------------------------------------------
(* Further properties of get_diff, checked under SpecDiff *)

\* no two articles of the list have the same URL
DistinctUrls(list) ==
    \A i \in DOMAIN list, j \in DOMAIN list : i # j => list[i].url # list[j].url

\* C26: when the previous snapshot counts as many articles as it has URLs
\* (the previous run's articles had no repeated URL) and the current articles
\* have no repeated URL, articles_delta = new_article_count -
\* removed_article_count.
C26_DeltaIsNewMinusRemoved ==
    (HasPrev /\ Called
        /\ Prev[1].article_count = Cardinality(Prev[1].article_urls)
        /\ DistinctUrls(articles)) =>
        LastDiff.summary.articles_delta =
            LastDiff.new_article_count - LastDiff.removed_article_count

\* two previous articles, one current article that is new: one new, two
\* removed, delta -1
C26_Witness ==
    /\ HasPrev /\ Called
    /\ Prev[1].article_urls = {"A", "B"} /\ Prev[1].article_count = 2
    /\ [i \in DOMAIN articles |-> articles[i].url] = <<"C">>
    /\ LastDiff.new_article_count = 1
    /\ LastDiff.removed_article_count = 2
    /\ LastDiff.summary.articles_delta = -1

\* C30: the shortage map create_current_snapshot stores for a list of shortage
\* items, and the map a later run loads from the file, is the map get_diff
\* computes for the same items; and when the loaded map is the one of the
\* current items, get_diff reports no shortage change.
C30_SameShortageMap ==
    /\ pc = "snapshot" =>
           /\ mgr[1].dm.current_snapshot[1].shortage_status = CurrentShortage(shortage_articles)
           /\ \A data \in SnapshotData(mgr[1].dm.current_snapshot[1]) :
                  SnapshotFromData(data).shortage_status = CurrentShortage(shortage_articles)
    /\ (HasPrev /\ Called
            /\ Prev[1].shortage_status = SnapshotShortageStatus(shortage_articles)) =>
           /\ LastDiff.shortage_changes = <<>>
           /\ ~LastDiff.summary.has_shortage_changes

\* the snapshot was made of a shortage title and a not-listed title of two
\* spellings, after a diff against the map of the same items
C30_Witness ==
    /\ pc = "snapshot"
    /\ HasPrev
    /\ Len(shortage_articles) = 2
    /\ shortage_articles[1].title = TitleShortage(NameOzLower)
    /\ shortage_articles[2].title = TitleNotListed(NameOz)
    /\ Prev[1].shortage_status = SnapshotShortageStatus(shortage_articles)
    /\ Cardinality(DOMAIN mgr[1].dm.current_snapshot[1].shortage_status) = 2
    /\ LastDiff.shortage_changes = <<>>

----------------------------------------------------------------------------
(* Properties of the shortage monitor, checked under SpecMonitor *)

\* the title is the one check_shortages emits for a name that is not listed
IsNotListedTitle(title) == Contains(title, MarkerNormal) /\ Contains(title, NotListed)

\* C27: when the monitored drug was reported as not listed by the previous run
\* and is reported as in shortage by this run, the key of this run's item is
\* a key of the previous map with status normal, and the one event of the
\* diff is the normal -> shortage one.
C27_StableKey ==
    (/\ history.runs = 2
     /\ Len(history.prev_items) = 1 /\ Len(shortage_articles) = 1
     /\ IsNotListedTitle(history.prev_items[1].title)
     /\ Contains(shortage_articles[1].title, MarkerShortage)) =>
        LET key  == CHOOSE k \in DOMAIN CurrentShortage(shortage_articles) : TRUE
            prev == history.used_prev[1].shortage_status
        IN  /\ key \in DOMAIN prev
            /\ prev[key] = "normal"
            /\ returned[1].shortage_changes =
                   ClassifyTransition(key, "normal", "shortage")

============================================================================
